---- MODULE Spec2Model ----
(***************************************************************************)
(* BrewOS cloud relay: the Device Relay (src/src/device-relay.ts) and the  *)
(* Client Proxy (the ClientProxy class in src/src/routes/logs.ts).         *)
(*                                                                         *)
(* The runtime is a single-threaded event loop: every handler (accept,     *)
(* frame, socket close, timer) runs to completion, so each handler is one  *)
(* action.  A handler's nested synchronous calls (sendToDevice,            *)
(* notifyHandlers and the subscribers it invokes) are operators from a     *)
(* state record to a state record; an action composes them and installs    *)
(* the result.                                                             *)
(***************************************************************************)
EXTENDS Integers, Sequences, FiniteSets, TLC

VARIABLES
    devices,          \* DeviceRelay.devices: the Map, as its set of entries
    conn,             \* DeviceConnection objects, by the socket they wrap
    dws,              \* device WebSockets: readyState, close() calls, frames sent
    online,           \* credential store: the device ids flagged online
    pubs,             \* every publication of notifyHandlers, in order
    clients,          \* ClientProxy.clients: the session ids it maps
    deviceClients,    \* ClientProxy.deviceClients: deviceId -> session ids
    cconn,            \* ClientConnection objects, by session id
    cws,              \* client WebSockets
    pendingMessages,  \* ClientProxy.pendingMessages: deviceId -> queue
    deviceStateCache, \* ClientProxy.deviceStateCache: deviceId -> cache
    timers,           \* the armed token-expiry timeouts
    requests,         \* the calls of sendDeviceRequest, by request id
    totals,           \* totalConnections, totalMessages, timer handles made
    now,              \* Date.now()
    last              \* the handler that ran last, its inputs and results

relayVars == <<devices, conn, dws, online, pubs>>

proxyVars == <<clients, deviceClients, cconn, cws, pendingMessages,
               deviceStateCache, timers, totals>>

vars == <<relayVars, proxyVars, requests, now, last>>

(* Program constants *)

MAX_MISSED_PINGS == 2
MAX_MISSED_PONGS == 2
TOKEN_EXPIRY_WARNING_MS == 300000
MESSAGE_QUEUE_TTL_MS == 10000
MAX_QUEUED_MESSAGES == 50
MAX_MESSAGE_RETRIES == 3
CACHE_STALE_THRESHOLD_MS == 10000

(* Bounds of the model *)

MaxDeviceSockets == 2     \* device sockets ever accepted
StartMs == 1000           \* the clock's first reading
MaxClientSockets == 2     \* client sockets ever accepted
TickMs == 10000           \* the clock's step
MaxTicks == 2             \* steps of the clock

DeviceIds == {"BRW-01ABCDEF", "BRW-02ABCDEF"}

(***************************************************************************)
(* The state a handler starts from, as one record, and its installation as *)
(* the next state.  A socket's sent holds the frames the handler that ran  *)
(* last wrote to it, so a handler starts with every sent empty.            *)
(***************************************************************************)

Unsent(sockets) ==
    [w \in DOMAIN sockets |-> [sockets[w] EXCEPT !.sent = << >>]]

S ==
    [devices |-> devices, conn |-> conn, dws |-> Unsent(dws),
     online |-> online,
     pubs |-> pubs, clients |-> clients, deviceClients |-> deviceClients,
     cconn |-> cconn, cws |-> Unsent(cws), pendingMessages |-> pendingMessages,
     deviceStateCache |-> deviceStateCache, timers |-> timers,
     requests |-> requests, totals |-> totals, now |-> now]

Apply(s, l) ==
    /\ devices' = s.devices
    /\ conn' = s.conn
    /\ dws' = s.dws
    /\ online' = s.online
    /\ pubs' = s.pubs
    /\ clients' = s.clients
    /\ deviceClients' = s.deviceClients
    /\ cconn' = s.cconn
    /\ cws' = s.cws
    /\ pendingMessages' = s.pendingMessages
    /\ deviceStateCache' = s.deviceStateCache
    /\ timers' = s.timers
    /\ requests' = s.requests
    /\ totals' = s.totals
    /\ now' = s.now
    /\ last' = l

Init ==
    /\ devices = {}
    /\ conn = << >>
    /\ dws = << >>
    /\ online = {}
    /\ pubs = << >>
    /\ clients = {}
    /\ deviceClients = << >>
    /\ cconn = << >>
    /\ cws = << >>
    /\ pendingMessages = << >>
    /\ deviceStateCache = << >>
    /\ timers = {}
    /\ requests = << >>
    /\ totals = [connections |-> 0, messages |-> 0, timers |-> 0]
    /\ now = StartMs
    /\ last = [op |-> "init"]


(***************************************************************************)
(* Messages.  A DeviceMessage is a tagged map; the model keeps its type,   *)
(* a payload identity (id, 0 for the relay's own messages), and the two    *)
(* fields the relay stamps ("" and 0 stand for an absent field).           *)
(***************************************************************************)

Msg(type, id, ts) ==
    [type |-> type, id |-> id, deviceId |-> "", timestamp |-> ts]

(***************************************************************************)
(* The ws library's socket, as far as the relay uses it.                   *)
(***************************************************************************)

\* quiet counts the keep-alive sweeps that visited the socket since its
\* peer's last frame of any kind and, on a client's socket, unponged those
\* since its last pong; pinged tells whether the latest sweep called ping();
\* peerClosed tells whether the peer's close frame has arrived.
NewSocket ==
    [readyState |-> "OPEN", closeCode |-> 0, closeCalls |-> {},
     destroyed |-> FALSE, peerClosed |-> FALSE, quiet |-> 0, unponged |-> 0,
     pinged |-> FALSE, sent |-> << >>]

\* The peer's close frame arrives: the library answers it and the socket is
\* CLOSING until the transport has closed, when 'close' is emitted.
WsPeerClose(w) ==
    [w EXCEPT !.readyState = "CLOSING", !.peerClosed = TRUE]

\* ws.close(code): an OPEN socket starts the closing handshake with that
\* code; on a socket that is already closing the call sends nothing.
WsClose(w, code) ==
    IF w.readyState = "OPEN"
    THEN [w EXCEPT !.readyState = "CLOSING", !.closeCode = code,
                   !.closeCalls = @ \cup {code}]
    ELSE [w EXCEPT !.closeCalls = @ \cup {code}]

\* ws.terminate(): destroys the transport; the 'close' event follows.
WsTerminate(w) ==
    IF w.readyState = "CLOSED"
    THEN w
    ELSE [w EXCEPT !.readyState = "CLOSING", !.destroyed = TRUE]

\* A socket whose transport was destroyed and whose 'close' event is due.
CloseDue(w) == w.destroyed /\ w.readyState # "CLOSED"

\* A socket on which the peer's frames still arrive.
Receiving(w) ==
    w.readyState \in {"OPEN", "CLOSING"} /\ ~w.destroyed /\ ~w.peerClosed

(***************************************************************************)
(* DeviceRelay.devices, a Map, as the set of its entries.                  *)
(***************************************************************************)

MapHas(m, k) == \E e \in m : e.deviceId = k

MapGet(m, k) == CHOOSE e \in m : e.deviceId = k

MapDelete(m, k) == {e \in m : e.deviceId # k}

MapSet(m, k, v) == MapDelete(m, k) \cup {[deviceId |-> k, ws |-> v]}

MapKeys(m) == {e.deviceId : e \in m}

(***************************************************************************)
(* Device Relay                                                            *)
(***************************************************************************)

\* services/device.updateDeviceStatus, which may throw; the relay catches.
updateDeviceStatus(s, deviceId, isOnline, fails) ==
    IF fails
    THEN s
    ELSE [s EXCEPT !.online = IF isOnline THEN @ \cup {deviceId}
                                          ELSE @ \ {deviceId}]

\* sendToDevice without the readyState test
sendToDevice_AnyState(s, deviceId, message) ==
    IF ~MapHas(s.devices, deviceId)
    THEN [s |-> s, ret |-> FALSE]
    ELSE [s |-> [s EXCEPT !.dws[MapGet(s.devices, deviceId).ws].sent =
                              Append(@, message)],
          ret |-> TRUE]

\* The state after the call (.s) and the value returned (.ret)
sendToDevice(s, deviceId, message) ==
    IF ~MapHas(s.devices, deviceId)
       \/ s.dws[MapGet(s.devices, deviceId).ws].readyState # "OPEN"
    THEN [s |-> s, ret |-> FALSE]
    ELSE [s |-> [s EXCEPT !.dws[MapGet(s.devices, deviceId).ws].sent =
                              Append(@, message)],
          ret |-> TRUE]

isDeviceConnected(s, deviceId) ==
    /\ MapHas(s.devices, deviceId)
    /\ s.dws[MapGet(s.devices, deviceId).ws].readyState = "OPEN"

getConnectedDeviceCount(s) == Cardinality(s.devices)

\* 0 stands for null
getDeviceLastSeen(s, deviceId) ==
    IF MapHas(s.devices, deviceId)
    THEN s.conn[MapGet(s.devices, deviceId).ws].lastSeen
    ELSE 0

(***************************************************************************)
(* Client Proxy: the operations its handlers are made of                   *)
(***************************************************************************)

\* Maps with a changing key set (pendingMessages, deviceStateCache,
\* deviceClients): Map.set and Map.delete
FSet(f, k, v) == [x \in DOMAIN f \cup {k} |-> IF x = k THEN v ELSE f[x]]

FDel(f, k) == [x \in DOMAIN f \ {k} |-> f[x]]

sendToClient(s, sessionId, frame) ==
    IF s.cws[sessionId].readyState = "OPEN"
    THEN [s EXCEPT !.cws[sessionId].sent = Append(@, frame)]
    ELSE s

CACHED_MESSAGE_TYPES ==
    {"status", "status_delta", "device_info", "esp_status", "pico_status"}

\* an absent slot of a DeviceStateCache
Absent == Msg("", 0, 0)

\* updateStateCache storing a delta in the status slot
updateStateCache_Delta(s, deviceId, message) ==
    LET cache == IF deviceId \in DOMAIN s.deviceStateCache
                 THEN s.deviceStateCache[deviceId]
                 ELSE [status |-> Absent, device_info |-> Absent,
                       esp_status |-> Absent, pico_status |-> Absent,
                       lastUpdated |-> s.now]
        updated ==
            IF message.type \in {"status", "status_delta"}
            THEN [cache EXCEPT !.status = message, !.lastUpdated = s.now]
            ELSE IF message.type = "device_info"
            THEN [cache EXCEPT !.device_info = message, !.lastUpdated = s.now]
            ELSE IF message.type = "esp_status"
            THEN [cache EXCEPT !.esp_status = message, !.lastUpdated = s.now]
            ELSE IF message.type = "pico_status"
            THEN [cache EXCEPT !.pico_status = message, !.lastUpdated = s.now]
            ELSE cache
    IN  [s EXCEPT !.deviceStateCache = FSet(@, deviceId, updated)]

updateStateCache(s, deviceId, message) ==
    LET cache == IF deviceId \in DOMAIN s.deviceStateCache
                 THEN s.deviceStateCache[deviceId]
                 ELSE [status |-> Absent, device_info |-> Absent,
                       esp_status |-> Absent, pico_status |-> Absent,
                       lastUpdated |-> s.now]
        updated ==
            IF message.type = "status"
            THEN [cache EXCEPT !.status = message, !.lastUpdated = s.now]
            ELSE IF message.type = "status_delta"
            THEN [cache EXCEPT !.lastUpdated = s.now]
            ELSE IF message.type = "device_info"
            THEN [cache EXCEPT !.device_info = message, !.lastUpdated = s.now]
            ELSE IF message.type = "esp_status"
            THEN [cache EXCEPT !.esp_status = message, !.lastUpdated = s.now]
            ELSE IF message.type = "pico_status"
            THEN [cache EXCEPT !.pico_status = message, !.lastUpdated = s.now]
            ELSE cache
    IN  [s EXCEPT !.deviceStateCache = FSet(@, deviceId, updated)]

\* clearStateCache dropping every device's entry
clearStateCache_All(s, deviceId) ==
    [s EXCEPT !.deviceStateCache = << >>]

clearStateCache(s, deviceId) ==
    [s EXCEPT !.deviceStateCache = FDel(@, deviceId)]

\* broadcastToDeviceClients writing to the sessions of every device
broadcastToDeviceClients_Every(s, deviceId, message) ==
    [s EXCEPT !.cws =
        [c \in DOMAIN @ |->
            IF c \in s.clients /\ @[c].readyState = "OPEN"
            THEN [@[c] EXCEPT !.sent = Append(@, message)]
            ELSE @[c]]]

\* Each bound session's socket is written at most once, so the order in
\* which the loop visits the sessions does not show.
broadcastToDeviceClients(s, deviceId, message) ==
    IF deviceId \notin DOMAIN s.deviceClients
    THEN s
    ELSE [s EXCEPT !.cws =
            [c \in DOMAIN @ |->
                IF /\ c \in s.deviceClients[deviceId]
                   /\ c \in s.clients
                   /\ @[c].readyState = "OPEN"
                THEN [@[c] EXCEPT !.sent = Append(@, message)]
                ELSE @[c]]]

\* queueMessageForDevice with > for >= in the test of the limit
queueMessageForDevice_Late(s, deviceId, message, clientSessionId) ==
    LET queue == IF deviceId \in DOMAIN s.pendingMessages
                 THEN s.pendingMessages[deviceId]
                 ELSE << >>
        room == IF Len(queue) > MAX_QUEUED_MESSAGES THEN Tail(queue) ELSE queue
    IN  [s EXCEPT !.pendingMessages =
            FSet(@, deviceId,
                 Append(room, [message |-> message, timestamp |-> s.now,
                               retries |-> 0,
                               clientSessionId |-> clientSessionId]))]

queueMessageForDevice(s, deviceId, message, clientSessionId) ==
    LET queue == IF deviceId \in DOMAIN s.pendingMessages
                 THEN s.pendingMessages[deviceId]
                 ELSE << >>
        room == IF Len(queue) >= MAX_QUEUED_MESSAGES THEN Tail(queue) ELSE queue
    IN  [s EXCEPT !.pendingMessages =
            FSet(@, deviceId,
                 Append(room, [message |-> message, timestamp |-> s.now,
                               retries |-> 0,
                               clientSessionId |-> clientSessionId]))]

\* the test of the TTL with >= for >
Expired_AtTtl(s, pending) ==
    s.now - pending.timestamp >= MESSAGE_QUEUE_TTL_MS

Expired(s, pending) == s.now - pending.timestamp > MESSAGE_QUEUE_TTL_MS

\* the filter handing the entries over newest first
validMessages_NewestFirst(s, queue) ==
    LET valid == SelectSeq(queue, LAMBDA pending : ~Expired(s, pending))
    IN  [i \in 1..Len(valid) |-> valid[Len(valid) + 1 - i]]

validMessages(s, queue) ==
    SelectSeq(queue, LAMBDA pending : ~Expired(s, pending))

\* the flush loop notifying the originator whether or not the send succeeded
RECURSIVE flushEach_Told(_, _, _)
flushEach_Told(s, deviceId, queue) ==
    IF queue = << >>
    THEN s
    ELSE LET pending == Head(queue)
             r == sendToDevice(s, deviceId, pending.message)
             s1 == IF pending.clientSessionId \in r.s.clients
                   THEN sendToClient(r.s, pending.clientSessionId,
                            [type |-> "queued_message_sent",
                             originalTimestamp |-> pending.timestamp,
                             messageType |-> pending.message.type])
                   ELSE r.s
         IN  flushEach_Told(s1, deviceId, Tail(queue))

\* the loop of flushPendingMessages over the valid entries (the retries
\* it counts on an entry that was not sent are dropped with the queue)
RECURSIVE flushEach(_, _, _)
flushEach(s, deviceId, queue) ==
    IF queue = << >>
    THEN s
    ELSE LET pending == Head(queue)
             r == sendToDevice(s, deviceId, pending.message)
             s1 == IF r.ret /\ pending.clientSessionId \in r.s.clients
                   THEN sendToClient(r.s, pending.clientSessionId,
                            [type |-> "queued_message_sent",
                             originalTimestamp |-> pending.timestamp,
                             messageType |-> pending.message.type])
                   ELSE r.s
         IN  flushEach(s1, deviceId, Tail(queue))

\* flushPendingMessages that keeps the queue when the device cannot be sent to
flushPendingMessages_Retry(s, deviceId) ==
    IF deviceId \notin DOMAIN s.pendingMessages
       \/ s.pendingMessages[deviceId] = << >>
       \/ ~isDeviceConnected(s, deviceId)
    THEN s
    ELSE [flushEach(s, deviceId,
                    validMessages(s, s.pendingMessages[deviceId]))
            EXCEPT !.pendingMessages = FDel(@, deviceId)]

\* flushPendingMessages without the filter
flushPendingMessages_All(s, deviceId) ==
    IF deviceId \in DOMAIN s.pendingMessages
    THEN [flushEach(s, deviceId, s.pendingMessages[deviceId])
            EXCEPT !.pendingMessages = FDel(@, deviceId)]
    ELSE s

\* flushPendingMessages without the delete of the queue after the loop
flushPendingMessages_NoDelete(s, deviceId) ==
    IF deviceId \notin DOMAIN s.pendingMessages
       \/ s.pendingMessages[deviceId] = << >>
    THEN s
    ELSE flushEach(s, deviceId, validMessages(s, s.pendingMessages[deviceId]))

flushPendingMessages(s, deviceId) ==
    IF deviceId \notin DOMAIN s.pendingMessages
       \/ s.pendingMessages[deviceId] = << >>
    THEN s
    ELSE [flushEach(s, deviceId,
                    validMessages(s, s.pendingMessages[deviceId]))
            EXCEPT !.pendingMessages = FDel(@, deviceId)]

\* the sweep's count of the entries it removes
totalExpired(s) ==
    LET RECURSIVE Sum(_)
        Sum(D) == IF D = {} THEN 0
                  ELSE LET d == CHOOSE x \in D : TRUE
                       IN  Len(s.pendingMessages[d])
                           - Len(validMessages(s, s.pendingMessages[d]))
                           + Sum(D \ {d})
    IN  Sum(DOMAIN s.pendingMessages)

cleanupExpiredQueuedMessages(s) ==
    LET keep == {d \in DOMAIN s.pendingMessages :
                    validMessages(s, s.pendingMessages[d]) # << >>}
    IN  [s EXCEPT !.pendingMessages =
            [d \in keep |-> validMessages(s, s.pendingMessages[d])]]

\* The three subscriptions of the constructor, in subscription order
ProxyOnDeviceMessage(s, deviceId, message) ==
    LET s1 == IF message.type \in CACHED_MESSAGE_TYPES
              THEN updateStateCache(s, deviceId, message)
              ELSE s
        s2 == broadcastToDeviceClients(s1, deviceId, message)
        s3 == IF message.type = "device_online"
              THEN flushPendingMessages(s2, deviceId)
              ELSE s2
    IN  IF message.type = "device_offline"
        THEN clearStateCache(s3, deviceId)
        ELSE s3

(***************************************************************************)
(* sendDeviceRequest (routes/logs.ts): a call is a record holding its      *)
(* device and request type, whether its handler is in the relay's          *)
(* subscriber set, whether its timeout is armed and when it is due, how    *)
(* its promise was settled, and how often resolve or reject was called.    *)
(* The request id, made of the clock and a random string in the source,    *)
(* is the call's number.                                                   *)
(***************************************************************************)

REQUEST_TIMEOUT_MS == 10000

\* requestId of a message, 0 for a message without one
RequestIdOf(message) ==
    IF "requestId" \in DOMAIN message THEN message.requestId ELSE 0

\* the condition without the comparison of the request ids
Responds_AnyRequest(req, r, deviceId, message) ==
    /\ deviceId = req.deviceId
    /\ (message.type = req.type \o "_response" \/ message.type = "error")

\* the condition under which a request's handler takes a publication
Responds(req, r, deviceId, message) ==
    /\ deviceId = req.deviceId
    /\ RequestIdOf(message) = r
    /\ (message.type = req.type \o "_response" \/ message.type = "error")

\* the handler that stays subscribed after it has settled its request
requestHandler_Stay(s, r, deviceId, message) ==
    LET req == s.requests[r]
    IN  IF Responds(req, r, deviceId, message)
        THEN [s EXCEPT !.requests[r] =
                 [req EXCEPT
                    !.timeoutArmed = FALSE,
                    !.outcome = IF message.type = "error"
                                THEN "rejected" ELSE "resolved",
                    !.error = IF message.type # "error" THEN ""
                              ELSE IF message.message # ""
                              THEN message.message ELSE "Device error",
                    !.response = IF message.type = "error" THEN 0
                                 ELSE message.id,
                    !.settled = @ + 1]]
        ELSE s

\* the handler of request r, called with a publication
requestHandler(s, r, deviceId, message) ==
    LET req == s.requests[r]
    IN  IF Responds(req, r, deviceId, message)
        THEN [s EXCEPT !.requests[r] =
                 [req EXCEPT
                    !.timeoutArmed = FALSE,
                    !.subscribed = FALSE,
                    !.outcome = IF message.type = "error"
                                THEN "rejected" ELSE "resolved",
                    !.error = IF message.type # "error" THEN ""
                              ELSE IF message.message # ""
                              THEN message.message ELSE "Device error",
                    !.response = IF message.type = "error" THEN 0
                                 ELSE message.id,
                    !.settled = @ + 1]]
        ELSE s

\* messageHandlers past the proxy's three subscriptions: the handlers of
\* the requests in flight.  A handler changes its own request only, so the
\* order of the calls does not show.
RECURSIVE notifyRequests(_, _, _, _)
notifyRequests(s, r, deviceId, message) ==
    IF r > Len(s.requests)
    THEN s
    ELSE notifyRequests(IF s.requests[r].subscribed
                        THEN requestHandler(s, r, deviceId, message)
                        ELSE s,
                        r + 1, deviceId, message)

\* The publication is logged with the socket whose handler published it and
\* with what the subscribers find when they are called: whether that socket
\* is the registered one of the device, whether the store has the device
\* online, and how many frames the handler has written to the socket.
notifyHandlers(s, deviceId, message, sock) ==
    notifyRequests(
        ProxyOnDeviceMessage(
            [s EXCEPT !.pubs =
                Append(@, [deviceId |-> deviceId,
                           type |-> message.type,
                           id |-> message.id, ws |-> sock,
                           registered |->
                               /\ MapHas(s.devices, deviceId)
                               /\ MapGet(s.devices, deviceId).ws = sock,
                           marked |-> deviceId \in s.online,
                           frames |-> Len(s.dws[sock].sent)])],
            deviceId, message),
        1, deviceId, message)

handleDeviceMessage(s, deviceId, message, sock) ==
    notifyHandlers(s, deviceId,
        [message EXCEPT !.deviceId = deviceId,
                        !.timestamp = IF @ # 0 THEN @ ELSE s.now],
        sock)

(***************************************************************************)
(* Inputs of a device connect: the query parameters id and key.  A key is  *)
(* its length and whether the store's verifyDeviceKey accepts it for the   *)
(* id; "" and length 0 stand for a missing parameter.                      *)
(***************************************************************************)

\* /^BRW-[A-F0-9]{8}$/i over the ids the model draws
IdFormatOk(id) == id \in DeviceIds \cup {"brw-0a1b2c3d"}

Key(length, good) == [length |-> length, good |-> good]

verifyDeviceKey(id, key) == id \in DeviceIds /\ key.good

\* the checks turning away a key of 32 characters
RejectCode_Short(id, key) ==
    IF id = "" \/ key.length = 0 THEN 4001
    ELSE IF ~IdFormatOk(id) THEN 4001
    ELSE IF key.length <= 32 \/ key.length > 64 THEN 4003
    ELSE IF ~verifyDeviceKey(id, key) THEN 4003
    ELSE 0

\* the close code of a rejected connect, 0 for an accepted one
RejectCode(id, key) ==
    IF id = "" \/ key.length = 0 THEN 4001
    ELSE IF ~IdFormatOk(id) THEN 4001
    ELSE IF key.length < 32 \/ key.length > 64 THEN 4003
    ELSE IF ~verifyDeviceKey(id, key) THEN 4003
    ELSE 0

NextSock(s) == Cardinality(DOMAIN s.dws) + 1

\* handleConnection that registers the new socket without closing the
\* registered one
acceptDevice_NoClose(s, sock, deviceId, fails) ==
    LET s2 == [s EXCEPT
                 !.dws = @ @@ (sock :> NewSocket),
                 !.conn = @ @@ (sock :> [deviceId |-> deviceId,
                                         connectedAt |-> s.now,
                                         lastSeen |-> s.now,
                                         missedPings |-> 0,
                                         replaced |->
                                             IF MapHas(s.devices, deviceId)
                                             THEN MapGet(s.devices, deviceId).ws
                                             ELSE 0]),
                 !.devices = MapSet(@, deviceId, sock)]
        s3 == updateDeviceStatus(s2, deviceId, TRUE, fails)
        s4 == sendToDevice(s3, deviceId, Msg("connected", 0, s.now)).s
        s5 == sendToDevice(s4, deviceId, Msg("request_state", 0, s.now)).s
    IN  notifyHandlers(s5, deviceId, Msg("device_online", 0, 0), sock)

\* DeviceRelay.handleConnection past the checks, for the new socket sock
\* handleConnection without the try block around updateDeviceStatus: the
\* store's exception ends it after the registration
acceptDevice_Throw(s, sock, deviceId, fails) ==
    LET s2 == [s EXCEPT
                 !.dws = @ @@ (sock :> NewSocket),
                 !.conn = @ @@ (sock :> [deviceId |-> deviceId,
                                         connectedAt |-> s.now,
                                         lastSeen |-> s.now,
                                         missedPings |-> 0,
                                         replaced |-> 0]),
                 !.devices = MapSet(@, deviceId, sock)]
        s4 == sendToDevice(s2, deviceId, Msg("connected", 0, s.now)).s
        s5 == sendToDevice(s4, deviceId, Msg("request_state", 0, s.now)).s
    IN  IF fails
        THEN s2
        ELSE notifyHandlers(updateDeviceStatus(s5, deviceId, TRUE, FALSE),
                            deviceId, Msg("device_online", 0, 0), sock)

\* handleConnection publishing device_online before it greets the device
acceptDevice_PublishFirst(s, sock, deviceId, fails) ==
    LET s2 == [s EXCEPT
                 !.dws = @ @@ (sock :> NewSocket),
                 !.conn = @ @@ (sock :> [deviceId |-> deviceId,
                                         connectedAt |-> s.now,
                                         lastSeen |-> s.now,
                                         missedPings |-> 0,
                                         replaced |-> 0]),
                 !.devices = MapSet(@, deviceId, sock)]
        s3 == updateDeviceStatus(s2, deviceId, TRUE, fails)
        s4 == notifyHandlers(s3, deviceId, Msg("device_online", 0, 0), sock)
        s5 == sendToDevice(s4, deviceId, Msg("connected", 0, s.now)).s
    IN  sendToDevice(s5, deviceId, Msg("request_state", 0, s.now)).s

acceptDevice(s, sock, deviceId, fails) ==
    LET s1 == IF MapHas(s.devices, deviceId)
              THEN [s EXCEPT !.dws[MapGet(s.devices, deviceId).ws] =
                                 WsClose(@, 4002)]
              ELSE s
        s2 == [s1 EXCEPT
                 !.dws = @ @@ (sock :> NewSocket),
                 !.conn = @ @@ (sock :> [deviceId |-> deviceId,
                                         connectedAt |-> s.now,
                                         lastSeen |-> s.now,
                                         missedPings |-> 0,
                                         replaced |->
                                             IF MapHas(s.devices, deviceId)
                                             THEN MapGet(s.devices, deviceId).ws
                                             ELSE 0]),
                 !.devices = MapSet(@, deviceId, sock)]
        s3 == updateDeviceStatus(s2, deviceId, TRUE, fails)
        s4 == sendToDevice(s3, deviceId, Msg("connected", 0, s.now)).s
        s5 == sendToDevice(s4, deviceId, Msg("request_state", 0, s.now)).s
    IN  notifyHandlers(s5, deviceId, Msg("device_online", 0, 0), sock)

DeviceConnect(id, key, fails) ==
    /\ NextSock(S) <= MaxDeviceSockets
    /\ IF RejectCode(id, key) # 0
       THEN Apply(S, [op |-> "deviceConnect", deviceId |-> id, key |-> key,
                      code |-> RejectCode(id, key), ws |-> 0, replaced |-> 0,
                      pending |-> << >>,
                      rejected |-> WsClose(NewSocket, RejectCode(id, key))])
       ELSE Apply(acceptDevice(S, NextSock(S), id, fails),
                  [op |-> "deviceConnect", deviceId |-> id, key |-> key,
                   code |-> 0, ws |-> NextSock(S),
                   replaced |-> IF MapHas(devices, id)
                                THEN MapGet(devices, id).ws ELSE 0,
                   pending |-> IF id \in DOMAIN pendingMessages
                               THEN pendingMessages[id] ELSE << >>,
                   fails |-> fails])

\* ws.on("pong")
DevicePong(sock) ==
    /\ sock \in DOMAIN conn
    /\ Receiving(dws[sock])
    /\ Apply([S EXCEPT !.conn[sock].missedPings = 0,
                       !.conn[sock].lastSeen = now,
                       !.dws[sock].quiet = 0],
             [op |-> "devicePong", ws |-> sock])

(***************************************************************************)
(* A received frame: binary (MessagePack, any number of packed messages)   *)
(* or text (one JSON object), well formed or not.  decodeFrame is what the *)
(* message handler's decoding delivers: every packed message in order, or  *)
(* nothing when the frame does not decode.                                 *)
(***************************************************************************)

Frame(binary, valid, msgs) ==
    [binary |-> binary, valid |-> valid, msgs |-> msgs]

decodeFrame(frame) ==
    IF ~frame.valid THEN << >>
    ELSE IF frame.binary THEN frame.msgs
    ELSE IF Len(frame.msgs) = 1 THEN frame.msgs
    ELSE << >>

\* A packed value that is not a map: MessagePack nil, which decodes to null.
\* handleDeviceMessage assigns message.deviceId first, so it throws a
\* TypeError for it before anything is published.
Nil == [nil |-> TRUE]

\* the loop over the decoded messages: the state it has reached and whether
\* a handleDeviceMessage threw, which ends it
RECURSIVE handleDeviceMessages(_, _, _, _)
handleDeviceMessages(s, deviceId, msgs, sock) ==
    IF msgs = << >>
    THEN [s |-> s, threw |-> FALSE]
    ELSE IF Head(msgs) = Nil
    THEN [s |-> s, threw |-> TRUE]
    ELSE handleDeviceMessages(
             handleDeviceMessage(s, deviceId, Head(msgs), sock),
             deviceId, Tail(msgs), sock)

\* The body of the message handler past the two heartbeat assignments.  A
\* binary frame is decoded with decodeMulti and its messages are handled
\* inside the same try block: an exception of the loop is caught as if the
\* decoding had failed, the frame is decoded once more with a Decoder and
\* the loop runs again from the first message.  When that throws too, the
\* single decode either throws on the extra bytes or yields the null that
\* is then skipped.  A text frame is one JSON value, handled unless null.
messageHandler(s, deviceId, frame, sock) ==
    LET msgs == decodeFrame(frame)
        multi == handleDeviceMessages(s, deviceId, msgs, sock)
        again == handleDeviceMessages(multi.s, deviceId, msgs, sock)
    IN  IF msgs = << >> THEN s
        ELSE IF ~frame.binary
        THEN handleDeviceMessages(s, deviceId, msgs, sock).s
        ELSE IF ~multi.threw THEN multi.s
        ELSE again.s

\* ws.on("message")
DeviceFrame(sock, frame) ==
    /\ sock \in DOMAIN conn
    /\ Receiving(dws[sock])
    /\ Apply(messageHandler(
                 [S EXCEPT !.conn[sock].lastSeen = now,
                           !.conn[sock].missedPings = 0,
                           !.dws[sock].quiet = 0],
                 conn[sock].deviceId, frame, sock),
             [op |-> "deviceFrame", ws |-> sock,
              count |-> Len(decodeFrame(frame)),
              msgs |-> decodeFrame(frame),
              pending |-> IF conn[sock].deviceId \in DOMAIN pendingMessages
                          THEN pendingMessages[conn[sock].deviceId]
                          ELSE << >>])

\* the close handler without devices.delete
DeviceSocketClose_Keep(sock, fails) ==
    /\ sock \in DOMAIN conn
    /\ dws[sock].readyState # "CLOSED"
    /\ Apply(notifyHandlers(
                 updateDeviceStatus(
                     [S EXCEPT !.dws[sock].readyState = "CLOSED"],
                     conn[sock].deviceId, FALSE, fails),
                 conn[sock].deviceId, Msg("device_offline", 0, 0), sock),
             [op |-> "deviceClose", ws |-> sock,
              deviceId |-> conn[sock].deviceId, fails |-> fails])

\* ws.on("close")
DeviceSocketClose(sock, fails) ==
    /\ sock \in DOMAIN conn
    /\ dws[sock].readyState # "CLOSED"
    /\ Apply(notifyHandlers(
                 updateDeviceStatus(
                     [S EXCEPT !.dws[sock].readyState = "CLOSED",
                               !.devices = MapDelete(@, conn[sock].deviceId)],
                     conn[sock].deviceId, FALSE, fails),
                 conn[sock].deviceId, Msg("device_offline", 0, 0), sock),
             [op |-> "deviceClose", ws |-> sock,
              deviceId |-> conn[sock].deviceId, fails |-> fails])

(***************************************************************************)
(* The keep-alive sweep.  terminate() destroys the transport, and the      *)
(* runtime emits the socket's 'close' event in the same turn of the event  *)
(* loop, so no timer fires while such a close is due.                      *)
(***************************************************************************)

NoCloseDue ==
    /\ \A w \in DOMAIN dws : ~CloseDue(dws[w])
    /\ \A c \in DOMAIN cws : ~CloseDue(cws[c])

Visited(s) == {e.ws : e \in s.devices}

\* the sweep's test with >= for >
TimedOut_AtLimit(s) ==
    {w \in Visited(s) : s.conn[w].missedPings + 1 >= MAX_MISSED_PINGS}

TimedOut(s) ==
    {w \in Visited(s) : s.conn[w].missedPings + 1 > MAX_MISSED_PINGS}

pingAllDevices(s) ==
    [s EXCEPT
       !.conn = [w \in DOMAIN @ |->
                    IF w \in Visited(s)
                    THEN [@[w] EXCEPT !.missedPings = @ + 1]
                    ELSE @[w]],
       !.dws = [w \in DOMAIN @ |->
                    IF w \in TimedOut(s)
                    THEN WsTerminate([@[w] EXCEPT !.quiet = @ + 1,
                                                  !.pinged = FALSE])
                    ELSE IF w \in Visited(s)
                    THEN [@[w] EXCEPT !.quiet = @ + 1, !.pinged = TRUE]
                    ELSE @[w]]]

PingAllDevices ==
    /\ NoCloseDue
    /\ devices # {}
    /\ Apply(pingAllDevices(S), [op |-> "pingAllDevices"])

\* DeviceRelay.disconnectDevice (admin action)
disconnectDevice(s, deviceId) ==
    IF MapHas(s.devices, deviceId)
    THEN [s |-> [s EXCEPT !.dws[MapGet(s.devices, deviceId).ws] =
                              WsClose(@, 4000)],
          ret |-> TRUE]
    ELSE [s |-> s, ret |-> FALSE]

DisconnectDevice(deviceId) ==
    /\ deviceId \in DeviceIds
    /\ Apply(disconnectDevice(S, deviceId).s,
             [op |-> "disconnectDevice", deviceId |-> deviceId,
              ret |-> disconnectDevice(S, deviceId).ret])

\* DeviceRelay.syncDatabaseState
SyncDatabaseState ==
    /\ online \subseteq DeviceIds
    /\ Apply([S EXCEPT !.online = @ \cap MapKeys(devices)],
             [op |-> "syncDatabaseState"])

\* A collaborator's call of the exposed sendToDevice
SendToDevice(deviceId, message) ==
    /\ deviceId \in DeviceIds
    /\ Apply(sendToDevice(S, deviceId, message).s,
             [op |-> "sendToDevice", deviceId |-> deviceId,
              message |-> message,
              ret |-> sendToDevice(S, deviceId, message).ret])

\* the callback of the timeout armed by sendDeviceRequest
RequestTimeout(r) ==
    /\ r \in DOMAIN requests
    /\ requests[r].timeoutArmed
    /\ now >= requests[r].at
    /\ Apply([S EXCEPT !.requests[r] =
                 [@ EXCEPT !.timeoutArmed = FALSE,
                           !.subscribed = FALSE,
                           !.outcome = "rejected",
                           !.error = "Request timeout",
                           !.settled = @ + 1]],
             [op |-> "requestTimeout", requestId |-> r])

\* sendDeviceRequest(deviceRelay, deviceId, message): the promise's executor
sendDeviceRequest(s, deviceId, message) ==
    LET r == Len(s.requests) + 1
        s1 == [s EXCEPT !.requests =
                  Append(@, [deviceId |-> deviceId, type |-> message.type,
                             subscribed |-> TRUE, timeoutArmed |-> TRUE,
                             at |-> s.now + REQUEST_TIMEOUT_MS,
                             outcome |-> "pending", error |-> "",
                             response |-> 0, settled |-> 0])]
        sent == sendToDevice(s1, deviceId, [requestId |-> r] @@ message)
    IN  IF sent.ret
        THEN sent.s
        ELSE [sent.s EXCEPT !.requests[r] =
                 [@ EXCEPT !.timeoutArmed = FALSE,
                           !.subscribed = FALSE,
                           !.outcome = "rejected",
                           !.error = "Device not connected",
                           !.settled = @ + 1]]

\* A route of the logs router past authentication and the ownership test:
\* 503 without a request when the device is not connected, else the request
LogsRoute(deviceId, type) ==
    /\ deviceId \in DeviceIds
    /\ IF ~isDeviceConnected(S, deviceId)
       THEN Apply(S, [op |-> "logsRoute", deviceId |-> deviceId,
                      type |-> type, status |-> 503, requestId |-> 0])
       ELSE Apply(sendDeviceRequest(S, deviceId, Msg(type, 0, now)),
                  [op |-> "logsRoute", deviceId |-> deviceId,
                   type |-> type, status |-> 0,
                   requestId |-> Len(requests) + 1])

(***************************************************************************)
(* Client Proxy: inputs of a client connect.  A token is whether the query *)
(* parameter is present, whether the store's verifyAccessToken accepts it, *)
(* and the user and expiry of the session it then returns.                 *)
(***************************************************************************)

Token(present, valid, user, expiresAt) ==
    [present |-> present, valid |-> valid, user |-> user,
     expiresAt |-> expiresAt]

verifyAccessToken(token) == token.present /\ token.valid

Owns == {<<"u1", "BRW-01ABCDEF">>, <<"u1", "BRW-02ABCDEF">>,
         <<"u2", "BRW-02ABCDEF">>}

userOwnsDevice(userId, deviceId) == <<userId, deviceId>> \in Owns

\* the checks with the ownership test ahead of the token's verification
ClientRejectCode_OwnerFirst(token, deviceId) ==
    IF ~token.present \/ deviceId = "" THEN 4001
    ELSE IF ~userOwnsDevice(token.user, deviceId) THEN 4003
    ELSE IF ~verifyAccessToken(token) THEN 4002
    ELSE 0

ClientRejectCode(token, deviceId) ==
    IF ~token.present \/ deviceId = "" THEN 4001
    ELSE IF ~verifyAccessToken(token) THEN 4002
    ELSE IF ~userOwnsDevice(token.user, deviceId) THEN 4003
    ELSE 0

NextSession(s) == Cardinality(DOMAIN s.cws) + 1

registerClient(s, sessionId) ==
    [s EXCEPT
       !.clients = @ \cup {sessionId},
       !.deviceClients =
           FSet(@, s.cconn[sessionId].deviceId,
                (IF s.cconn[sessionId].deviceId \in DOMAIN @
                 THEN @[s.cconn[sessionId].deviceId] ELSE {})
                \cup {sessionId})]

\* unregisterClient leaving a device's emptied set in the index
unregisterClient_KeepEmpty(s, sessionId) ==
    LET d == s.cconn[sessionId].deviceId
    IN  [s EXCEPT
           !.clients = @ \ {sessionId},
           !.deviceClients =
               IF d \notin DOMAIN @ THEN @
               ELSE FSet(@, d, @[d] \ {sessionId})]

unregisterClient(s, sessionId) ==
    LET d == s.cconn[sessionId].deviceId
    IN  [s EXCEPT
           !.clients = @ \ {sessionId},
           !.deviceClients =
               IF d \notin DOMAIN @ THEN @
               ELSE IF @[d] \ {sessionId} = {} THEN FDel(@, d)
               ELSE FSet(@, d, @[d] \ {sessionId})]

clearTimeout(s, handle) ==
    [s EXCEPT !.timers = {h \in @ : h.id # handle}]

\* cleanupClient leaving the session's timeout armed
cleanupClient_NoClear(s, sessionId) == unregisterClient(s, sessionId)

cleanupClient(s, sessionId) ==
    unregisterClient(
        IF s.cconn[sessionId].tokenExpiryTimer # 0
        THEN clearTimeout(s, s.cconn[sessionId].tokenExpiryTimer)
        ELSE s,
        sessionId)

\* setTimeout returns a fresh handle; the timeout stays armed until it
\* fires or is cleared.
setupTokenExpiryWarning(s, sessionId) ==
    LET expiresAt == s.cconn[sessionId].accessTokenExpiresAt
        warningTime == expiresAt - TOKEN_EXPIRY_WARNING_MS
        handle == s.totals.timers + 1
    IN  IF warningTime > s.now
        THEN [s EXCEPT
                !.timers = @ \cup {[id |-> handle, sessionId |-> sessionId,
                                    at |-> warningTime,
                                    expiresAt |-> expiresAt]},
                !.totals.timers = handle,
                !.cconn[sessionId].tokenExpiryTimer = handle]
        ELSE s

\* the slots with device_info ahead of status
Slots_InfoFirst == <<"device_info", "status", "esp_status", "pico_status">>

Slots == <<"status", "device_info", "esp_status", "pico_status">>

\* the cached frames, in the order handleConnection sends them
RECURSIVE sendCached(_, _, _, _)
sendCached(s, sessionId, cache, i) ==
    IF i > Len(Slots)
    THEN s
    ELSE sendCached(IF cache[Slots[i]] # Absent
                    THEN sendToClient(s, sessionId, cache[Slots[i]])
                    ELSE s,
                    sessionId, cache, i + 1)

\* acceptClient taking a cache of exactly the threshold's age for stale
acceptClient_AtThreshold(s, sessionId, token, deviceId) ==
    LET s1 == [s EXCEPT
                 !.cws = @ @@ (sessionId :> NewSocket),
                 !.cconn = @ @@ (sessionId :>
                     [userId |-> token.user, deviceId |-> deviceId,
                      missedPongs |-> 0,
                      accessTokenExpiresAt |-> token.expiresAt,
                      tokenExpiryTimer |-> 0,
                      messagesSent |-> 0, messagesReceived |-> 0]),
                 !.totals.connections = @ + 1]
        s2 == setupTokenExpiryWarning(registerClient(s1, sessionId), sessionId)
        deviceOnline == isDeviceConnected(s2, deviceId)
        s3 == sendToClient(s2, sessionId,
                  [type |-> "connected", sessionId |-> sessionId,
                   deviceId |-> deviceId, deviceOnline |-> deviceOnline,
                   deviceLastSeen |-> getDeviceLastSeen(s2, deviceId),
                   tokenExpiresAt |-> token.expiresAt, timestamp |-> s.now])
    IN  IF deviceId \in DOMAIN s3.deviceStateCache /\ deviceOnline
        THEN LET cache == s3.deviceStateCache[deviceId]
                 s4 == sendCached(s3, sessionId, cache, 1)
             IN  IF s.now - cache.lastUpdated >= CACHE_STALE_THRESHOLD_MS
                 THEN sendToDevice(s4, deviceId,
                                   Msg("request_state", 0, s.now)).s
                 ELSE s4
        ELSE IF deviceOnline
        THEN sendToDevice(s3, deviceId, Msg("request_state", 0, s.now)).s
        ELSE s3

\* ClientProxy.handleConnection past the checks, for the new session
acceptClient(s, sessionId, token, deviceId) ==
    LET s1 == [s EXCEPT
                 !.cws = @ @@ (sessionId :> NewSocket),
                 !.cconn = @ @@ (sessionId :>
                     [userId |-> token.user, deviceId |-> deviceId,
                      missedPongs |-> 0,
                      accessTokenExpiresAt |-> token.expiresAt,
                      tokenExpiryTimer |-> 0,
                      messagesSent |-> 0, messagesReceived |-> 0]),
                 !.totals.connections = @ + 1]
        s2 == setupTokenExpiryWarning(registerClient(s1, sessionId), sessionId)
        deviceOnline == isDeviceConnected(s2, deviceId)
        s3 == sendToClient(s2, sessionId,
                  [type |-> "connected", sessionId |-> sessionId,
                   deviceId |-> deviceId, deviceOnline |-> deviceOnline,
                   deviceLastSeen |-> getDeviceLastSeen(s2, deviceId),
                   tokenExpiresAt |-> token.expiresAt, timestamp |-> s.now])
    IN  IF deviceId \in DOMAIN s3.deviceStateCache /\ deviceOnline
        THEN LET cache == s3.deviceStateCache[deviceId]
                 s4 == sendCached(s3, sessionId, cache, 1)
             IN  IF s.now - cache.lastUpdated > CACHE_STALE_THRESHOLD_MS
                 THEN sendToDevice(s4, deviceId,
                                   Msg("request_state", 0, s.now)).s
                 ELSE s4
        ELSE IF deviceOnline
        THEN sendToDevice(s3, deviceId, Msg("request_state", 0, s.now)).s
        ELSE s3

\* wss.on("connection") of the client server.  A socket that is turned
\* away is known to the handler alone; last.rejected is that socket as the
\* handler leaves it.
ClientConnect(token, deviceId) ==
    /\ NextSession(S) <= MaxClientSockets
    /\ IF ClientRejectCode(token, deviceId) # 0
       THEN Apply(S, [op |-> "clientConnect", deviceId |-> deviceId,
                      token |-> token,
                      code |-> ClientRejectCode(token, deviceId),
                      sessionId |-> 0,
                      rejected |-> WsClose(NewSocket,
                                      ClientRejectCode(token, deviceId))])
       ELSE Apply(acceptClient(S, NextSession(S), token, deviceId),
                  [op |-> "clientConnect", deviceId |-> deviceId,
                   token |-> token,
                   code |-> 0, sessionId |-> NextSession(S)])

\* the callback of the timeout armed by setupTokenExpiryWarning
TokenTimerFire(h) ==
    /\ h \in timers
    /\ now >= h.at
    /\ Apply(sendToClient([S EXCEPT !.timers = @ \ {h}], h.sessionId,
                 [type |-> "token_expiring",
                  expiresAt |-> cconn[h.sessionId].accessTokenExpiresAt,
                  expiresIn |-> (h.expiresAt - now) \div 1000,
                  refreshRequired |-> TRUE]),
             [op |-> "tokenTimer", sessionId |-> h.sessionId, id |-> h.id])

(***************************************************************************)
(* Client Proxy: the handlers of an accepted client socket.  The n-th      *)
(* message the proxy receives carries the payload identity n.              *)
(***************************************************************************)

\* ws.on("pong")
ClientPong(sessionId) ==
    /\ sessionId \in DOMAIN cconn
    /\ Receiving(cws[sessionId])
    /\ Apply([S EXCEPT !.cconn[sessionId].missedPongs = 0,
                       !.cws[sessionId].quiet = 0,
                       !.cws[sessionId].unponged = 0],
             [op |-> "clientPong", sessionId |-> sessionId])

\* handleAuthRefresh arming the new timeout without clearing the old one
handleAuthRefresh_NoClear(s, sessionId, token) ==
    IF ~token.present
    THEN sendToClient(s, sessionId,
             [type |-> "auth_refreshed", success |-> FALSE,
              error |-> "Missing token"])
    ELSE IF ~verifyAccessToken(token)
    THEN sendToClient(s, sessionId,
             [type |-> "auth_refreshed", success |-> FALSE,
              error |-> "Invalid or expired token"])
    ELSE IF token.user # s.cconn[sessionId].userId
    THEN sendToClient(s, sessionId,
             [type |-> "auth_refreshed", success |-> FALSE,
              error |-> "Token user mismatch"])
    ELSE LET s1 == [s EXCEPT !.cconn[sessionId].accessTokenExpiresAt =
                                 token.expiresAt]
         IN  sendToClient(setupTokenExpiryWarning(s1, sessionId), sessionId,
                 [type |-> "auth_refreshed", success |-> TRUE,
                  tokenExpiresAt |-> token.expiresAt])

\* handleAuthRefresh accepting the token of any user
handleAuthRefresh_AnyUser(s, sessionId, token) ==
    IF ~token.present
    THEN sendToClient(s, sessionId,
             [type |-> "auth_refreshed", success |-> FALSE,
              error |-> "Missing token"])
    ELSE IF ~verifyAccessToken(token)
    THEN sendToClient(s, sessionId,
             [type |-> "auth_refreshed", success |-> FALSE,
              error |-> "Invalid or expired token"])
    ELSE LET s1 == [s EXCEPT !.cconn[sessionId].accessTokenExpiresAt =
                                 token.expiresAt]
             s2 == IF s1.cconn[sessionId].tokenExpiryTimer # 0
                   THEN clearTimeout(s1, s1.cconn[sessionId].tokenExpiryTimer)
                   ELSE s1
         IN  sendToClient(setupTokenExpiryWarning(s2, sessionId), sessionId,
                 [type |-> "auth_refreshed", success |-> TRUE,
                  tokenExpiresAt |-> token.expiresAt])

\* token is the message's token field
handleAuthRefresh(s, sessionId, token) ==
    IF ~token.present
    THEN sendToClient(s, sessionId,
             [type |-> "auth_refreshed", success |-> FALSE,
              error |-> "Missing token"])
    ELSE IF ~verifyAccessToken(token)
    THEN sendToClient(s, sessionId,
             [type |-> "auth_refreshed", success |-> FALSE,
              error |-> "Invalid or expired token"])
    ELSE IF token.user # s.cconn[sessionId].userId
    THEN sendToClient(s, sessionId,
             [type |-> "auth_refreshed", success |-> FALSE,
              error |-> "Token user mismatch"])
    ELSE LET s1 == [s EXCEPT !.cconn[sessionId].accessTokenExpiresAt =
                                 token.expiresAt]
             s2 == IF s1.cconn[sessionId].tokenExpiryTimer # 0
                   THEN clearTimeout(s1, s1.cconn[sessionId].tokenExpiryTimer)
                   ELSE s1
         IN  sendToClient(setupTokenExpiryWarning(s2, sessionId), sessionId,
                 [type |-> "auth_refreshed", success |-> TRUE,
                  tokenExpiresAt |-> token.expiresAt])

QueueLength(s, deviceId) ==
    IF deviceId \in DOMAIN s.pendingMessages
    THEN Len(s.pendingMessages[deviceId])
    ELSE 0

\* the forwarding branch reporting the queue's length before the enqueue
forwardToDevice_Before(s, sessionId, message) ==
    LET deviceId == s.cconn[sessionId].deviceId
        stamped == [message EXCEPT !.timestamp = s.now]
        s1 == [s EXCEPT !.cconn[sessionId].messagesSent = @ + 1]
        r == sendToDevice(s1, deviceId, stamped)
        s2 == queueMessageForDevice(r.s, deviceId, stamped, sessionId)
    IN  IF r.ret
        THEN r.s
        ELSE sendToClient(s2, sessionId,
                 [type |-> "device_status", deviceId |-> deviceId,
                  online |-> FALSE,
                  lastSeen |-> getDeviceLastSeen(s2, deviceId),
                  messageQueued |-> TRUE,
                  queuedMessages |-> QueueLength(r.s, deviceId),
                  queueTTL |-> MESSAGE_QUEUE_TTL_MS \div 1000])

\* the branch of handleClientMessage that forwards to the device
\* the forwarding that takes the target from the message's deviceId field
\* when the message has one
forwardToDevice_ByField(s, sessionId, message) ==
    LET deviceId == IF message.deviceId # "" THEN message.deviceId
                    ELSE s.cconn[sessionId].deviceId
        stamped == [message EXCEPT !.timestamp = s.now]
        s1 == [s EXCEPT !.cconn[sessionId].messagesSent = @ + 1]
        r == sendToDevice(s1, deviceId, stamped)
    IN  IF r.ret
        THEN r.s
        ELSE queueMessageForDevice(r.s, deviceId, stamped, sessionId)

forwardToDevice(s, sessionId, message) ==
    LET deviceId == s.cconn[sessionId].deviceId
        stamped == [message EXCEPT !.timestamp = s.now]
        s1 == [s EXCEPT !.cconn[sessionId].messagesSent = @ + 1]
        r == sendToDevice(s1, deviceId, stamped)
        s2 == queueMessageForDevice(r.s, deviceId, stamped, sessionId)
    IN  IF r.ret
        THEN r.s
        ELSE sendToClient(s2, sessionId,
                 [type |-> "device_status", deviceId |-> deviceId,
                  online |-> FALSE,
                  lastSeen |-> getDeviceLastSeen(s2, deviceId),
                  messageQueued |-> TRUE,
                  queuedMessages |-> QueueLength(s2, deviceId),
                  queueTTL |-> MESSAGE_QUEUE_TTL_MS \div 1000])

\* handleClientMessage without the branch for get_metrics
handleClientMessage_NoMetrics(s, sessionId, message, token) ==
    IF message.type = "refresh_auth"
    THEN handleAuthRefresh(s, sessionId, token)
    ELSE IF message.type = "ping"
    THEN sendToClient(s, sessionId,
             [type |-> "pong", timestamp |-> s.now,
              clientTimestamp |-> message.timestamp])
    ELSE forwardToDevice(s, sessionId, message)

handleClientMessage(s, sessionId, message, token) ==
    IF message.type = "refresh_auth"
    THEN handleAuthRefresh(s, sessionId, token)
    ELSE IF message.type = "ping"
    THEN sendToClient(s, sessionId,
             [type |-> "pong", timestamp |-> s.now,
              clientTimestamp |-> message.timestamp])
    ELSE IF message.type = "get_metrics"
    THEN sendToClient(s, sessionId,
             [type |-> "metrics",
              messagesSent |-> s.cconn[sessionId].messagesSent,
              messagesReceived |-> s.cconn[sessionId].messagesReceived,
              deviceOnline |->
                  isDeviceConnected(s, s.cconn[sessionId].deviceId),
              queuedMessages |->
                  QueueLength(s, s.cconn[sessionId].deviceId)])
    ELSE forwardToDevice(s, sessionId, message)

\* ws.on("message"): valid tells whether the data parses as JSON; data is
\* the parsed object as the client wrote it (its type, timestamp and
\* deviceId fields), token its token field.  The payload identity is the
\* number of the message.
ClientData(sessionId, data, valid, token) ==
    /\ sessionId \in DOMAIN cconn
    /\ Receiving(cws[sessionId])
    /\ LET received == [S EXCEPT
                          !.cconn[sessionId].messagesReceived = @ + 1,
                          !.totals.messages = @ + 1,
                          !.cws[sessionId].quiet = 0]
           message == [data EXCEPT !.id = totals.messages + 1]
       IN  Apply(IF valid
                 THEN handleClientMessage(received, sessionId, message, token)
                 ELSE received,
                 [op |-> "clientMessage", sessionId |-> sessionId,
                  type |-> data.type, valid |-> valid, token |-> token,
                  id |-> totals.messages + 1, message |-> message])

\* a message that carries nothing but its type
ClientMessage(sessionId, type, valid, token) ==
    ClientData(sessionId, Msg(type, 0, 0), valid, token)

\* The client starts the closing handshake; no handler of the proxy runs
\* until the 'close' event, and the session stays registered until then.
ClientClosing(sessionId) ==
    /\ sessionId \in DOMAIN cconn
    /\ Receiving(cws[sessionId])
    /\ Apply([S EXCEPT !.cws[sessionId] = WsPeerClose(@)],
             [op |-> "clientClosing", sessionId |-> sessionId])

\* ws.on("close")
ClientSocketClose(sessionId) ==
    /\ sessionId \in DOMAIN cconn
    /\ cws[sessionId].readyState # "CLOSED"
    /\ Apply(cleanupClient([S EXCEPT !.cws[sessionId].readyState = "CLOSED"],
                           sessionId),
             [op |-> "clientClose", sessionId |-> sessionId])

\* ws.on("error"): the library destroys the transport of a socket that
\* emitted 'error', and its 'close' event follows.
ClientSocketError(sessionId) ==
    /\ sessionId \in DOMAIN cconn
    /\ Receiving(cws[sessionId])
    /\ Apply(cleanupClient([S EXCEPT !.cws[sessionId] = WsTerminate(@)],
                           sessionId),
             [op |-> "clientError", sessionId |-> sessionId])

\* the sweep's test with >= for >
ClientTimedOut_AtLimit(s) ==
    {c \in s.clients : s.cconn[c].missedPongs + 1 >= MAX_MISSED_PONGS}

ClientTimedOut(s) ==
    {c \in s.clients : s.cconn[c].missedPongs + 1 > MAX_MISSED_PONGS}

pingAllClients(s) ==
    [s EXCEPT
       !.cconn = [c \in DOMAIN @ |->
                     IF c \in s.clients
                     THEN [@[c] EXCEPT !.missedPongs = @ + 1]
                     ELSE @[c]],
       !.cws = [c \in DOMAIN @ |->
                   IF c \in ClientTimedOut(s)
                   THEN WsTerminate([@[c] EXCEPT !.quiet = @ + 1,
                                                 !.unponged = @ + 1,
                                                 !.pinged = FALSE])
                   ELSE IF c \in s.clients
                   THEN [@[c] EXCEPT !.quiet = @ + 1, !.unponged = @ + 1,
                                     !.pinged = (s.cws[c].readyState = "OPEN")]
                   ELSE @[c]]]

PingAllClients ==
    /\ NoCloseDue
    /\ clients # {}
    /\ Apply(pingAllClients(S), [op |-> "pingAllClients"])

\* the queue-cleanup interval
CleanupExpiredQueuedMessages ==
    /\ NoCloseDue
    /\ Apply(cleanupExpiredQueuedMessages(S),
             [op |-> "cleanup", totalExpired |-> totalExpired(S)])

getConnectedClientCount(s) == Cardinality(s.clients)

(***************************************************************************)
(* The clock.  Time passes between handlers, never while a 'close' event   *)
(* or an armed timeout is due.                                             *)
(***************************************************************************)

Tick ==
    /\ NoCloseDue
    /\ \A h \in timers : h.at > now
    /\ \A r \in DOMAIN requests :
           requests[r].timeoutArmed => requests[r].at > now
    /\ now < StartMs + MaxTicks * TickMs
    /\ Apply([S EXCEPT !.now = @ + TickMs], [op |-> "tick"])

(***************************************************************************)
(* The relay alone: devices connect, send, time out and close; no client.  *)
(* Inputs the relay specifications draw from.  Payload ids are unique: a   *)
(* device message is drawn at most once.                                   *)
(***************************************************************************)

RelayKeys == {Key(43, TRUE), Key(43, FALSE)}

RelayFrames ==
    {Frame(TRUE, TRUE, <<Msg("status", 1, 0)>>),
     Frame(TRUE, FALSE, <<Msg("status", 2, 0)>>)}

RelayCalls == {Msg("get_log_info", 7, 0)}

Published(id) == \E i \in 1..Len(pubs) : pubs[i].id = id

FreshFrame(f) == \A i \in 1..Len(f.msgs) : ~Published(f.msgs[i].id)

NextRelay ==
    \/ \E id \in DeviceIds, key \in RelayKeys : DeviceConnect(id, key, FALSE)
    \/ \E w \in 1..MaxDeviceSockets, f \in RelayFrames :
          FreshFrame(f) /\ DeviceFrame(w, f)
    \/ \E w \in 1..MaxDeviceSockets : DeviceSocketClose(w, FALSE)
    \/ \E d \in DeviceIds : DisconnectDevice(d)
    \/ SyncDatabaseState
    \/ \E d \in DeviceIds, m \in RelayCalls :
          SendToDevice(d, m)

SpecRelay == Init /\ [][NextRelay]_vars

(***************************************************************************)
(* The relay's keep-alive: sweeps, pongs and frames of the sockets of one  *)
(* device id, with replacement and close.                                  *)
(***************************************************************************)

KeepAliveIds == {"BRW-01ABCDEF"}

NextKeepAlive ==
    \/ \E id \in KeepAliveIds : DeviceConnect(id, Key(43, TRUE), FALSE)
    \/ \E w \in 1..MaxDeviceSockets : DevicePong(w)
    \/ \E w \in 1..MaxDeviceSockets, f \in RelayFrames :
          FreshFrame(f) /\ DeviceFrame(w, f)
    \/ \E w \in 1..MaxDeviceSockets : DeviceSocketClose(w, FALSE)
    \/ PingAllDevices
    \/ \E d \in KeepAliveIds : DisconnectDevice(d)

SpecKeepAlive == Init /\ [][NextKeepAlive]_vars

(***************************************************************************)
(* Keep-alive of both sides: one device and the clients bound to it, with  *)
(* sweeps, pongs, frames, socket errors and closes.  The tokens drawn      *)
(* expire within the warning window, so no expiry timeout is armed.        *)
(***************************************************************************)

MaxBeatSockets == 1       \* device sockets of the keep-alive runs
MaxBeatClients == 1       \* client sockets of the two-sided runs
MaxBeatMsgs == 1          \* client messages of the keep-alive runs

NoToken == Token(FALSE, FALSE, "", 0)

BeatToken == Token(TRUE, TRUE, "u1", StartMs + TOKEN_EXPIRY_WARNING_MS)

BeatFrames ==
    {Frame(TRUE, TRUE, <<Msg("status", 101, 0)>>),
     Frame(FALSE, FALSE, <<Msg("status", 102, 0)>>)}

NextBeat ==
    \/ \E id \in KeepAliveIds :
          NextSock(S) <= MaxBeatSockets /\ DeviceConnect(id, Key(43, TRUE), FALSE)
    \/ \E w \in 1..MaxDeviceSockets : DevicePong(w)
    \/ \E w \in 1..MaxDeviceSockets, f \in BeatFrames :
          FreshFrame(f) /\ DeviceFrame(w, f)
    \/ \E w \in 1..MaxDeviceSockets : DeviceSocketClose(w, FALSE)
    \/ PingAllDevices
    \/ \E id \in KeepAliveIds :
          NextSession(S) <= MaxBeatClients /\ ClientConnect(BeatToken, id)
    \/ \E c \in 1..MaxClientSockets : ClientPong(c)
    \/ \E c \in 1..MaxClientSockets, type \in {"ping", "command"},
          valid \in BOOLEAN :
          /\ totals.messages < MaxBeatMsgs
          /\ ClientMessage(c, type, valid, NoToken)
    \/ \E c \in 1..MaxClientSockets : ClientSocketClose(c)
    \/ \E c \in 1..MaxClientSockets : ClientSocketError(c)
    \/ PingAllClients

SpecBeat == Init /\ [][NextBeat]_vars

(***************************************************************************)
(* The clients' keep-alive alone: the device stays offline, so what a      *)
(* client sends is queued.                                                 *)
(***************************************************************************)

NextClients ==
    \/ \E id \in KeepAliveIds : ClientConnect(BeatToken, id)
    \/ \E c \in 1..MaxClientSockets : ClientPong(c)
    \/ \E c \in 1..MaxClientSockets :
          /\ totals.messages < MaxBeatMsgs
          /\ ClientMessage(c, "command", TRUE, NoToken)
    \/ \E c \in 1..MaxClientSockets : ClientSocketClose(c)
    \/ \E c \in 1..MaxClientSockets : ClientSocketError(c)
    \/ PingAllClients

SpecClients == Init /\ [][NextClients]_vars

(***************************************************************************)
(* A burst: the device stays offline and one client at a time sends        *)
(* commands, which are queued.                                             *)
(***************************************************************************)

MaxBurst == 51            \* client messages of a burst

NextBurst ==
    \/ \E id \in KeepAliveIds : clients = {} /\ ClientConnect(BeatToken, id)
    \/ \E c \in 1..MaxClientSockets :
          /\ totals.messages < MaxBurst
          /\ ClientMessage(c, "command", TRUE, NoToken)
    \/ \E c \in 1..MaxClientSockets : ClientSocketClose(c)
SpecBurst == Init /\ [][NextBurst]_vars

(***************************************************************************)
(* The queue's life: clients queue commands for offline devices, time      *)
(* passes, the cleanup interval fires, a device connects (which flushes    *)
(* its queue) and closes.                                                  *)
(***************************************************************************)

MaxQueueMsgs == 2         \* client messages of the queue runs

NextQueue ==
    \/ \E id \in KeepAliveIds :
          NextSession(S) <= MaxBeatClients /\ ClientConnect(BeatToken, id)
    \/ \E c \in 1..MaxClientSockets :
          /\ totals.messages < MaxQueueMsgs
          /\ ClientMessage(c, "command", TRUE, NoToken)
    \/ \E c \in 1..MaxClientSockets : ClientSocketClose(c)
    \/ \E id \in KeepAliveIds :
          NextSock(S) <= MaxBeatSockets /\ DeviceConnect(id, Key(43, TRUE), FALSE)
    \/ \E w \in 1..MaxDeviceSockets : DeviceSocketClose(w, FALSE)
    \/ CleanupExpiredQueuedMessages
    \/ Tick

SpecQueue == Init /\ [][NextQueue]_vars

(***************************************************************************)
(* The cleanup interval over the queues of two devices that stay offline.  *)
(***************************************************************************)

NextCleanup ==
    \/ \E id \in DeviceIds : ClientConnect(BeatToken, id)
    \/ \E c \in 1..MaxClientSockets :
          /\ totals.messages < MaxQueueMsgs
          /\ ClientMessage(c, "command", TRUE, NoToken)
    \/ \E c \in 1..MaxClientSockets : ClientSocketClose(c)
    \/ CleanupExpiredQueuedMessages
    \/ Tick

SpecCleanup == Init /\ [][NextCleanup]_vars

(***************************************************************************)
(* Flushes of every kind: a device_online publication comes from an        *)
(* accepted connect or from a device frame of that type, possibly on a     *)
(* socket the relay has asked to close, to which nothing can be sent.      *)
(***************************************************************************)

FlushFrames == {Frame(TRUE, TRUE, <<Msg("device_online", 103, 0)>>)}

NextFlush ==
    \/ \E id \in DeviceIds : ClientConnect(BeatToken, id)
    \/ \E c \in 1..MaxClientSockets :
          /\ totals.messages < MaxQueueMsgs
          /\ ClientMessage(c, "command", TRUE, NoToken)
    \/ \E id \in KeepAliveIds :
          NextSock(S) <= MaxBeatSockets /\ DeviceConnect(id, Key(43, TRUE), FALSE)
    \/ \E w \in 1..MaxDeviceSockets, f \in FlushFrames :
          FreshFrame(f) /\ DeviceFrame(w, f)
    \/ \E d \in KeepAliveIds : DisconnectDevice(d)
    \/ \E w \in 1..MaxDeviceSockets : DeviceSocketClose(w, FALSE)

SpecFlush == Init /\ [][NextFlush]_vars

(***************************************************************************)
(* Flush notifications: the clients of one device queue commands, leave    *)
(* (closing handshake, then 'close') or stay; the device connects, is      *)
(* asked to close, announces device_online itself.                         *)
(***************************************************************************)

NextNotify ==
    \/ \E id \in KeepAliveIds : ClientConnect(BeatToken, id)
    \/ \E c \in 1..MaxClientSockets :
          /\ totals.messages < MaxQueueMsgs
          /\ ClientMessage(c, "command", TRUE, NoToken)
    \/ \E c \in 1..MaxClientSockets : ClientClosing(c)
    \/ \E c \in 1..MaxClientSockets : ClientSocketClose(c)
    \/ \E id \in KeepAliveIds :
          NextSock(S) <= MaxBeatSockets /\ DeviceConnect(id, Key(43, TRUE), FALSE)
    \/ \E w \in 1..MaxDeviceSockets, f \in FlushFrames :
          FreshFrame(f) /\ DeviceFrame(w, f)
    \/ \E d \in KeepAliveIds : DisconnectDevice(d)

SpecNotify == Init /\ [][NextNotify]_vars

(***************************************************************************)
(* The state cache: two devices connect and report telemetry of every      *)
(* cached type, a delta and a second full status, while time passes.  The  *)
(* payload ids drawn increase.                                             *)
(***************************************************************************)

CacheFrames ==
    {Frame(TRUE, TRUE, <<Msg("status", 201, 0)>>),
     Frame(TRUE, TRUE, <<Msg("device_info", 202, 0)>>),
     Frame(TRUE, TRUE, <<Msg("esp_status", 203, 0)>>),
     Frame(TRUE, TRUE, <<Msg("pico_status", 204, 0)>>),
     Frame(TRUE, TRUE, <<Msg("status_delta", 205, 0)>>),
     Frame(TRUE, TRUE, <<Msg("status", 206, 0)>>)}

NewerFrame(f) ==
    \A i \in 1..Len(pubs), j \in 1..Len(f.msgs) :
        f.msgs[j] # Nil => pubs[i].id < f.msgs[j].id

NextCache ==
    \/ \E id \in DeviceIds : DeviceConnect(id, Key(43, TRUE), FALSE)
    \/ \E w \in 1..MaxDeviceSockets, f \in CacheFrames :
          NewerFrame(f) /\ DeviceFrame(w, f)
    \/ now = StartMs /\ Tick

SpecCache == Init /\ [][NextCache]_vars

(***************************************************************************)
(* Going offline: two devices connect, report a status, announce           *)
(* device_offline themselves or close.                                     *)
(***************************************************************************)

OfflineFrames ==
    {Frame(TRUE, TRUE, <<Msg("status", 211, 0)>>),
     Frame(TRUE, TRUE, <<Msg("status", 212, 0)>>),
     Frame(TRUE, TRUE, <<Msg("device_offline", 213, 0)>>)}

NextOffline ==
    \/ \E id \in DeviceIds : DeviceConnect(id, Key(43, TRUE), FALSE)
    \/ \E w \in 1..MaxDeviceSockets, f \in OfflineFrames :
          NewerFrame(f) /\ DeviceFrame(w, f)
    \/ \E w \in 1..MaxDeviceSockets : DeviceSocketClose(w, FALSE)

SpecOffline == Init /\ [][NextOffline]_vars

(***************************************************************************)
(* Hydration: one device connects, reports telemetry and is asked to       *)
(* close, time passes, and clients connect for it.                         *)
(***************************************************************************)

HydrateFrames ==
    {Frame(TRUE, TRUE, <<Msg("status", 221, 0)>>),
     Frame(TRUE, TRUE, <<Msg("device_info", 222, 0)>>),
     Frame(TRUE, TRUE, <<Msg("esp_status", 223, 0)>>),
     Frame(TRUE, TRUE, <<Msg("pico_status", 224, 0)>>)}

NextHydrate ==
    \/ \E id \in KeepAliveIds :
          NextSock(S) <= MaxBeatSockets /\ DeviceConnect(id, Key(43, TRUE), FALSE)
    \/ \E w \in 1..MaxDeviceSockets, f \in HydrateFrames :
          NewerFrame(f) /\ DeviceFrame(w, f)
    \/ \E d \in KeepAliveIds : DisconnectDevice(d)
    \/ \E id \in KeepAliveIds :
          NextSession(S) <= MaxBeatClients /\ ClientConnect(BeatToken, id)
    \/ Tick

SpecHydrate == Init /\ [][NextHydrate]_vars

(***************************************************************************)
(* Admission of clients: connects with and without token and device, with  *)
(* tokens that do not verify and users that do not own the device, while   *)
(* one device is online.  The tokens expire late enough for an accepted    *)
(* connect to arm the expiry warning.                                      *)
(***************************************************************************)

AdmitExpiry == StartMs + TOKEN_EXPIRY_WARNING_MS + TickMs

AdmitTokens ==
    {NoToken,
     Token(TRUE, FALSE, "u1", AdmitExpiry),
     Token(TRUE, FALSE, "u2", AdmitExpiry),
     Token(TRUE, TRUE, "u1", AdmitExpiry),
     Token(TRUE, TRUE, "u2", AdmitExpiry)}

NextAdmit ==
    \/ \E token \in AdmitTokens, id \in DeviceIds \cup {""} :
          ClientConnect(token, id)
    \/ \E id \in KeepAliveIds :
          NextSock(S) <= MaxBeatSockets /\ DeviceConnect(id, Key(43, TRUE), FALSE)
    \/ \E c \in 1..MaxClientSockets : ClientSocketClose(c)

SpecAdmit == Init /\ [][NextAdmit]_vars

(***************************************************************************)
(* Admission of devices: connects with and without id and key, with ids    *)
(* of the wrong form or unknown to the store and keys too short, too long  *)
(* or refused, next to connects that are accepted, and closes.             *)
(***************************************************************************)

GateIds == {"", "BRW-XYZ", "brw-0a1b2c3d"} \cup DeviceIds

GateKeys ==
    {Key(0, FALSE), Key(31, TRUE), Key(32, TRUE), Key(43, TRUE),
     Key(43, FALSE), Key(64, TRUE), Key(65, TRUE)}

NextGate ==
    \/ \E id \in GateIds, key \in GateKeys : DeviceConnect(id, key, FALSE)
    \/ \E w \in 1..MaxDeviceSockets : DeviceSocketClose(w, FALSE)

SpecGate == Init /\ [][NextGate]_vars

(***************************************************************************)
(* The session table and the per-device index: clients of two devices      *)
(* connect, start to close, fail, are swept and close.                     *)
(***************************************************************************)

NextIndex ==
    \/ \E id \in DeviceIds : ClientConnect(BeatToken, id)
    \/ \E c \in 1..MaxClientSockets : ClientClosing(c)
    \/ \E c \in 1..MaxClientSockets : ClientSocketClose(c)
    \/ \E c \in 1..MaxClientSockets : ClientSocketError(c)
    \/ PingAllClients

SpecIndex == Init /\ [][NextIndex]_vars

(***************************************************************************)
(* Token expiry: clients of one device connect with tokens that expire in  *)
(* five minutes or one or two clock steps later, ask for refresh_auth with *)
(* no token, with tokens that do not verify, of another user or of their   *)
(* own, start to close, fail and close, while time passes and the armed    *)
(* timeouts fire.                                                          *)
(***************************************************************************)

MaxRefresh == 2           \* refresh_auth messages of the token runs

LateExpiry == StartMs + TOKEN_EXPIRY_WARNING_MS + 2 * TickMs

ConnectTokens == {BeatToken, Token(TRUE, TRUE, "u1", AdmitExpiry)}

RefreshTokens ==
    {NoToken,
     Token(TRUE, FALSE, "u1", LateExpiry),
     Token(TRUE, TRUE, "u2", LateExpiry),
     Token(TRUE, TRUE, "u1", LateExpiry),
     BeatToken}

NextToken ==
    \/ \E token \in ConnectTokens, id \in KeepAliveIds :
          NextSession(S) <= MaxBeatClients /\ ClientConnect(token, id)
    \/ \E c \in 1..MaxClientSockets, token \in RefreshTokens :
          /\ totals.messages < MaxRefresh
          /\ ClientMessage(c, "refresh_auth", TRUE, token)
    \/ \E h \in timers : TokenTimerFire(h)
    \/ \E c \in 1..MaxClientSockets : ClientClosing(c)
    \/ \E c \in 1..MaxClientSockets : ClientSocketClose(c)
    \/ \E c \in 1..MaxClientSockets : ClientSocketError(c)
    \/ Tick

SpecToken == Init /\ [][NextToken]_vars

(***************************************************************************)
(* Requests of the logs routes: two devices connect; routes ask them for   *)
(* their log info; the devices answer with responses and errors that carry *)
(* the id of the first or the second request, or a frame of another type   *)
(* that carries one; time passes and the requests' timeouts fire.          *)
(***************************************************************************)

MaxRequests == 2          \* calls of the logs routes

Reply(type, id, requestId, message) ==
    [requestId |-> requestId, message |-> message] @@ Msg(type, id, 0)

ReplyFrames ==
    {Frame(TRUE, TRUE, <<Reply("status", 301, 2, "")>>),
     Frame(TRUE, TRUE, <<Reply("get_log_info_response", 302, 2, "")>>),
     Frame(TRUE, TRUE, <<Reply("error", 303, 1, "Log buffer busy")>>),
     Frame(TRUE, TRUE, <<Reply("get_log_info_response", 304, 1, "")>>)}

NextRequest ==
    \/ \E id \in DeviceIds :
          ~MapHas(devices, id) /\ DeviceConnect(id, Key(43, TRUE), FALSE)
    \/ \E d \in DeviceIds :
          Len(requests) < MaxRequests /\ LogsRoute(d, "get_log_info")
    \/ \E w \in 1..MaxDeviceSockets, f \in ReplyFrames :
          NewerFrame(f) /\ DeviceFrame(w, f)
    \/ \E r \in 1..MaxRequests : RequestTimeout(r)
    \/ (\E r \in DOMAIN requests : requests[r].timeoutArmed) /\ Tick

SpecRequest == Init /\ [][NextRequest]_vars

(***************************************************************************)
(* Fan-out: two devices connect and send frames that pack one or several   *)
(* values, a nil among them, while clients of either device connect and    *)
(* begin to close.                                                         *)
(***************************************************************************)

OrderFrames ==
    {Frame(TRUE, TRUE, <<Msg("status", 401, 0), Msg("device_info", 402, 0)>>),
     Frame(TRUE, TRUE, <<Msg("esp_status", 403, 0), Nil>>),
     Frame(TRUE, TRUE, <<Nil, Msg("pico_status", 404, 0)>>),
     Frame(FALSE, TRUE, <<Msg("status", 405, 0)>>),
     Frame(TRUE, TRUE, <<Msg("status_delta", 406, 0), Nil,
                         Msg("status", 407, 0)>>)}

NextOrder ==
    \/ \E id \in DeviceIds :
          ~MapHas(devices, id) /\ DeviceConnect(id, Key(43, TRUE), FALSE)
    \/ \E id \in DeviceIds : ClientConnect(BeatToken, id)
    \/ \E c \in 1..MaxClientSockets : ClientClosing(c)
    \/ \E w \in 1..MaxDeviceSockets, f \in OrderFrames :
          NewerFrame(f) /\ DeviceFrame(w, f)

SpecOrder == Init /\ [][NextOrder]_vars

(***************************************************************************)
(* Coming online: the client of one device sends commands while the device *)
(* is away, time passes, the device connects and the client sends more.    *)
(***************************************************************************)

MaxOnlineMsgs == 3        \* client messages of the coming-online runs

NextOnline ==
    \/ \E id \in KeepAliveIds :
          NextSession(S) <= MaxBeatClients /\ ClientConnect(BeatToken, id)
    \/ \E c \in 1..MaxClientSockets :
          /\ totals.messages < MaxOnlineMsgs
          /\ ClientMessage(c, "command", TRUE, NoToken)
    \/ \E id \in KeepAliveIds :
          NextSock(S) <= MaxBeatSockets /\ DeviceConnect(id, Key(43, TRUE), FALSE)
    \/ \E w \in 1..MaxDeviceSockets : DeviceSocketClose(w, FALSE)
    \/ Tick

SpecOnline == Init /\ [][NextOnline]_vars

(***************************************************************************)
(* Client messages of every kind: the clients of one device send control   *)
(* messages and commands while the device connects and closes.             *)
(***************************************************************************)

MaxControlMsgs == 3       \* client messages of the control runs

ControlData ==
    {Msg("ping", 0, 11), Msg("ping", 0, 12),
     Msg("get_metrics", 0, 0), Msg("refresh_auth", 0, 0),
     Msg("command", 0, 0)}

ControlTokens == {NoToken, Token(TRUE, TRUE, "u1", LateExpiry)}

NextControl ==
    \/ \E id \in KeepAliveIds :
          NextSession(S) <= MaxBeatClients /\ ClientConnect(BeatToken, id)
    \/ \E c \in 1..MaxClientSockets, data \in ControlData,
          token \in ControlTokens :
          /\ totals.messages < MaxControlMsgs
          /\ (token # NoToken => data.type = "refresh_auth")
          /\ ClientData(c, data, TRUE, token)
    \/ \E id \in KeepAliveIds :
          NextSock(S) <= MaxBeatSockets /\ DeviceConnect(id, Key(43, TRUE), FALSE)
    \/ \E w \in 1..MaxDeviceSockets : DeviceSocketClose(w, FALSE)

SpecControl == Init /\ [][NextControl]_vars

(***************************************************************************)
(* A store that fails: two devices connect, are replaced and close while   *)
(* updateDeviceStatus throws or not, and a client watches.                 *)
(***************************************************************************)

NextStore ==
    \/ \E id \in DeviceIds, fails \in BOOLEAN :
          DeviceConnect(id, Key(43, TRUE), fails)
    \/ \E w \in 1..MaxDeviceSockets, fails \in BOOLEAN :
          DeviceSocketClose(w, fails)
    \/ \E id \in DeviceIds :
          NextSession(S) <= MaxBeatClients /\ ClientConnect(BeatToken, id)

SpecStore == Init /\ [][NextStore]_vars

(***************************************************************************)
(* Hydration after deltas: one device connects and sends status_delta and  *)
(* status messages, time passes, and clients connect for it.               *)
(***************************************************************************)

DeltaFrames ==
    {Frame(TRUE, TRUE, <<Msg("status_delta", 231, 0)>>),
     Frame(TRUE, TRUE, <<Msg("status", 232, 0)>>)}

NextDelta ==
    \/ \E id \in KeepAliveIds :
          NextSock(S) <= MaxBeatSockets /\ DeviceConnect(id, Key(43, TRUE), FALSE)
    \/ \E w \in 1..MaxDeviceSockets, f \in DeltaFrames :
          NewerFrame(f) /\ DeviceFrame(w, f)
    \/ \E id \in KeepAliveIds : ClientConnect(BeatToken, id)
    \/ Tick

SpecDelta == Init /\ [][NextDelta]_vars

(***************************************************************************)
(* A command's way: the client of one device sends commands; the device    *)
(* connects, reconnects and closes; time passes and the sweep runs.        *)
(***************************************************************************)

NextWay ==
    \/ \E id \in KeepAliveIds :
          NextSession(S) <= MaxBeatClients /\ ClientConnect(BeatToken, id)
    \/ \E c \in 1..MaxClientSockets :
          /\ totals.messages < MaxQueueMsgs
          /\ ClientMessage(c, "command", TRUE, NoToken)
    \/ \E id \in KeepAliveIds : DeviceConnect(id, Key(43, TRUE), FALSE)
    \/ \E w \in 1..MaxDeviceSockets : DeviceSocketClose(w, FALSE)
    \/ CleanupExpiredQueuedMessages
    \/ Tick

SpecWay == Init /\ [][NextWay]_vars

(***************************************************************************)
(* Binding: the clients of two devices, one of which connects, send        *)
(* commands whose deviceId field is absent or names either device, and     *)
(* refresh their tokens.                                                   *)
(***************************************************************************)

BindData ==
    {Msg("command", 0, 0), Msg("refresh_auth", 0, 0)}
    \cup {[Msg("command", 0, 0) EXCEPT !.deviceId = d] : d \in DeviceIds}

NextBind ==
    \/ \E id \in DeviceIds : ClientConnect(BeatToken, id)
    \/ \E c \in 1..MaxClientSockets, data \in BindData :
          /\ totals.messages < MaxQueueMsgs
          /\ ClientData(c, data, TRUE,
                        IF data.type = "refresh_auth"
                        THEN Token(TRUE, TRUE, "u1", LateExpiry)
                        ELSE NoToken)
    \/ \E id \in DeviceIds :
          ~MapHas(devices, id) /\ DeviceConnect(id, Key(43, TRUE), FALSE)

SpecBind == Init /\ [][NextBind]_vars

(***************************************************************************)
(* Log routes: a signed-in user calls one of the six routes of the logs    *)
(* router with a device parameter that is missing, a device of another     *)
(* user or an own device; one device connects, answers and goes away; time *)
(* passes and the requests' timeouts fire.  The relay is attached to every *)
(* request, so the 500 of a missing relay is not taken.                    *)
(***************************************************************************)

\* the characters of the error texts and of the two texts searched in them
Chars(text) ==
    CASE text = "Request timeout" ->
           <<"R", "e", "q", "u", "e", "s", "t", " ",
             "t", "i", "m", "e", "o", "u", "t">>
      [] text = "Device not connected" ->
           <<"D", "e", "v", "i", "c", "e", " ", "n", "o", "t", " ",
             "c", "o", "n", "n", "e", "c", "t", "e", "d">>
      [] text = "Device error" ->
           <<"D", "e", "v", "i", "c", "e", " ", "e", "r", "r", "o", "r">>
      [] text = "Log buffer busy" ->
           <<"L", "o", "g", " ", "b", "u", "f", "f", "e", "r", " ",
             "b", "u", "s", "y">>
      [] text = "timeout" ->
           <<"t", "i", "m", "e", "o", "u", "t">>
      [] text = "not connected" ->
           <<"n", "o", "t", " ", "c", "o", "n", "n", "e", "c", "t", "e", "d">>

\* String.prototype.includes
includes(text, search) ==
    LET t == Chars(text)
        p == Chars(search)
    IN  \E i \in 0..(Len(t) - Len(p)) : SubSeq(t, i + 1, i + Len(p)) = p

\* the catch block of a route: the status of a rejected request
errorStatus(message) ==
    IF includes(message, "timeout") THEN 504
    ELSE IF includes(message, "not connected") THEN 503
    ELSE 500

\* the response of a route to its settled request, 0 while it waits
routeResponse(req) ==
    IF req.outcome = "resolved" THEN 200
    ELSE IF req.outcome = "rejected" THEN errorStatus(req.error)
    ELSE 0

\* the checks without the ownership test
routeStatus_NoOwner(s, userId, deviceId) ==
    IF deviceId = "" THEN 400
    ELSE IF ~isDeviceConnected(s, deviceId) THEN 503
    ELSE 0

\* the checks of a route ahead of its request, 0 when they all pass
routeStatus(s, userId, deviceId) ==
    IF deviceId = "" THEN 400
    ELSE IF ~userOwnsDevice(userId, deviceId) THEN 404
    ELSE IF ~isDeviceConnected(s, deviceId) THEN 503
    ELSE 0

\* A route of the logs router, called by a signed-in user
LogsHandler(userId, deviceId, type) ==
    LET status == routeStatus(S, userId, deviceId)
    IN  Apply(IF status = 0
              THEN sendDeviceRequest(S, deviceId, Msg(type, 0, now))
              ELSE S,
              [op |-> "logsRoute", userId |-> userId,
               deviceId |-> deviceId, type |-> type, status |-> status,
               requestId |-> IF status = 0 THEN Len(requests) + 1 ELSE 0])

MaxLogRequests == 1       \* requests of the log routes

LogUsers == {"u1", "u2"}

\* the request types of the routes called, GET / and POST /enable; the
\* routes /info, DELETE /, /pico and /debug differ in the type they send
LogTypes == {"get_logs", "set_log_enabled"}

LogFrames ==
    {Frame(TRUE, TRUE, <<Reply("error", 311, 1, "Log buffer busy")>>),
     Frame(TRUE, TRUE, <<Reply("get_logs_response", 312, 1, "")>>)}

NextLogs ==
    \/ \E id \in KeepAliveIds :
          /\ NextSock(S) <= MaxBeatSockets
          /\ ~MapHas(devices, id)
          /\ DeviceConnect(id, Key(43, TRUE), FALSE)
    \/ \E w \in 1..MaxDeviceSockets : DeviceSocketClose(w, FALSE)
    \/ \E u \in LogUsers, d \in DeviceIds \cup {""},
          t \in LogTypes :
          /\ routeStatus(S, u, d) = 0 => Len(requests) < MaxLogRequests
          /\ LogsHandler(u, d, t)
    \/ \E w \in 1..MaxDeviceSockets, f \in LogFrames :
          NewerFrame(f) /\ DeviceFrame(w, f)
    \/ \E r \in 1..MaxLogRequests : RequestTimeout(r)
    \/ (\E r \in DOMAIN requests : requests[r].timeoutArmed) /\ Tick

SpecLogs == Init /\ [][NextLogs]_vars

(***************************************************************************)
(* Properties                                                              *)
(***************************************************************************)

Entries(d) == {e \in devices : e.deviceId = d}

Registered(w) == \E e \in devices : e.ws = w

\* C1 (SpecRelay): the registry holds at most one DeviceConnection per
\* device id, and an accepted connect for an id that is registered calls
\* close(4002) on the registered socket and leaves the new socket as the
\* id's only entry.
C1_AtMostOne == \A d \in DeviceIds : Cardinality(Entries(d)) <= 1

C1_ReplaceStep ==
    (last'.op = "deviceConnect" /\ last'.code = 0
        /\ MapHas(devices, last'.deviceId))
    => /\ 4002 \in dws'[MapGet(devices, last'.deviceId).ws].closeCalls
       /\ dws'[MapGet(devices, last'.deviceId).ws].readyState # "OPEN"
       /\ {e \in devices' : e.deviceId = last'.deviceId} =
              {[deviceId |-> last'.deviceId, ws |-> last'.ws]}
       /\ last'.ws # MapGet(devices, last'.deviceId).ws

C1_Registry == []C1_AtMostOne /\ [][C1_ReplaceStep]_vars

C1_Witness ==
    /\ last.op = "deviceConnect"
    /\ last.replaced # 0
    /\ dws[last.replaced].closeCode = 4002
    /\ Entries(last.deviceId) = {[deviceId |-> last.deviceId, ws |-> last.ws]}

\* C2 (SpecRelay): once a socket has replaced the registered socket of its
\* device id, the replaced socket has been closed with 4002 and, in every
\* state in which the new socket is open, getConnectedDeviceCount() counts
\* the device exactly once.
C2_CountedOnce ==
    \A w \in DOMAIN conn :
        (conn[w].replaced # 0 /\ dws[w].readyState = "OPEN")
        => /\ 4002 \in dws[conn[w].replaced].closeCalls
           /\ Cardinality(Entries(conn[w].deviceId)) = 1
           /\ getConnectedDeviceCount(S) =
                  Cardinality({conn[e.ws].deviceId : e \in devices})

\* C3 (SpecRelay): for every device id a device_online is published only
\* when the id's previous lifecycle publication, if any, is a
\* device_offline, and a session's message is published only after that
\* session's device_online.
Lifecycle(i) == pubs[i].type \in {"device_online", "device_offline"}

C3_Ordering ==
    \A i \in 1..Len(pubs) :
        /\ pubs[i].type = "device_online"
           => \A j \in 1..(i - 1) :
                  (/\ Lifecycle(j)
                   /\ pubs[j].deviceId = pubs[i].deviceId
                   /\ \A k \in (j + 1)..(i - 1) :
                          ~(Lifecycle(k) /\ pubs[k].deviceId = pubs[i].deviceId))
                  => pubs[j].type = "device_offline"
        /\ ~Lifecycle(i)
           => \E j \in 1..(i - 1) :
                  /\ pubs[j].type = "device_online"
                  /\ pubs[j].ws = pubs[i].ws

\* C4 (SpecRelay): sendToDevice returns true exactly when the device id is
\* registered with an open socket; then it writes exactly that one frame,
\* to that socket, and changes nothing else; otherwise it returns false,
\* writes no frame and changes no state.
C4_Rest ==
    /\ UNCHANGED <<devices, conn, online, pubs, now, clients, deviceClients,
                   cconn, pendingMessages, deviceStateCache, timers, totals>>
    /\ cws' = S.cws

C4_SendStep ==
    (last'.op = "sendToDevice")
    => LET d == last'.deviceId
           open == \E e \in devices :
                       e.deviceId = d /\ dws[e.ws].readyState = "OPEN"
       IN  /\ last'.ret <=> open
           /\ last'.ret
              => /\ \E e \in devices :
                      /\ e.deviceId = d
                      /\ dws' = [S.dws EXCEPT ![e.ws].sent =
                                     <<last'.message>>]
                 /\ C4_Rest
           /\ ~last'.ret
              => /\ dws' = S.dws
                 /\ C4_Rest

C4_SendToDevice == [][C4_SendStep]_vars

C4_Witness ==
    /\ last.op = "sendToDevice"
    /\ ~last.ret
    /\ MapHas(devices, last.deviceId)
    /\ dws[MapGet(devices, last.deviceId).ws].readyState = "CLOSING"

C4_WitnessSent ==
    /\ last.op = "sendToDevice"
    /\ last.ret

\* C5 (SpecKeepAlive): a registered connection's missedPings is the number
\* of consecutive sweeps since its peer's last frame and never exceeds 3;
\* a sweep terminates exactly the connections for which it is the third
\* such sweep, sends those no ping and pings every other one; and only a
\* sweep terminates.
C5_Counter ==
    \A e \in devices :
        /\ conn[e.ws].missedPings = dws[e.ws].quiet
        /\ conn[e.ws].missedPings <= MAX_MISSED_PINGS + 1

C5_SweepStep ==
    /\ (last'.op = "pingAllDevices")
       => \A e \in devices :
              /\ dws'[e.ws].destroyed <=> dws[e.ws].quiet = 2
              /\ dws'[e.ws].destroyed <=> conn'[e.ws].missedPings = 3
              /\ dws'[e.ws].pinged <=> ~dws'[e.ws].destroyed
    /\ \A w \in DOMAIN dws :
           (dws'[w].destroyed /\ ~dws[w].destroyed)
           => last'.op = "pingAllDevices"

C5_KeepAlive == []C5_Counter /\ [][C5_SweepStep]_vars

C5_Witness ==
    /\ last.op = "pingAllDevices"
    /\ \E e \in devices :
           /\ dws[e.ws].destroyed
           /\ ~dws[e.ws].pinged
           /\ conn[e.ws].missedPings = 3

\* C6 (SpecBeat): a frame received from a peer sets that connection's
\* missed-beat counter to zero: a device's pong or message, parseable or
\* not, sets missedPings to 0, and a client's pong or message sets
\* missedPongs to 0.
C6_FrameStep ==
    /\ last'.op \in {"devicePong", "deviceFrame"}
       => conn'[last'.ws].missedPings = 0
    /\ last'.op \in {"clientPong", "clientMessage"}
       => cconn'[last'.sessionId].missedPongs = 0

C6_FrameResets == [][C6_FrameStep]_vars

\* C7 (SpecClients): a client connection's missedPongs is the number of
\* consecutive sweeps since its last pong and never exceeds 3; a sweep
\* terminates exactly the registered clients for which it is the third
\* such sweep (missedPongs becomes 3 > MAX_MISSED_PONGS); and the close
\* event of a client the sweep terminated removes that client, so that
\* getConnectedClientCount() decreases by 1.
C7_Counter ==
    \A c \in DOMAIN cconn :
        /\ cconn[c].missedPongs <= 3
        /\ cconn[c].missedPongs = cws[c].unponged

C7_SweepStep ==
    /\ (last'.op = "pingAllClients")
       => \A c \in clients :
              /\ cws'[c].destroyed <=> cws[c].unponged = MAX_MISSED_PONGS
              /\ cws'[c].destroyed <=> cconn'[c].missedPongs = 3
              /\ c \in clients'
    /\ \A c \in DOMAIN cws :
           (cws'[c].destroyed /\ ~cws[c].destroyed /\ c \in clients')
           => last'.op = "pingAllClients"
    /\ (last'.op = "clientClose" /\ last'.sessionId \in clients
           /\ cws[last'.sessionId].destroyed)
       => /\ cws'[last'.sessionId].readyState = "CLOSED"
          /\ clients' = clients \ {last'.sessionId}
          /\ getConnectedClientCount(S)' = getConnectedClientCount(S) - 1

C7_ClientKeepAlive == []C7_Counter /\ [][C7_SweepStep]_vars

C7_Witness ==
    /\ last.op = "clientClose"
    /\ cconn[last.sessionId].missedPongs = 3
    /\ cws[last.sessionId].destroyed
    /\ last.sessionId \notin clients
    /\ getConnectedClientCount(S) = 1

\* C8 (SpecBurst): the pending queue of every device holds at most 50
\* entries; a client message that is queued goes to the tail of its
\* device's queue, and when that queue already holds 50 the head entry is
\* dropped and the other 49 keep their order.
QueueOf(d) ==
    IF d \in DOMAIN pendingMessages THEN pendingMessages[d] ELSE << >>

C8_Bounded ==
    \A d \in DOMAIN pendingMessages : Len(pendingMessages[d]) <= 50

C8_EnqueueStep ==
    (/\ last'.op = "clientMessage"
     /\ last'.valid
     /\ last'.type \notin {"refresh_auth", "ping", "get_metrics"}
     /\ ~isDeviceConnected(S, cconn[last'.sessionId].deviceId))
    => LET d == cconn[last'.sessionId].deviceId
           q == QueueOf(d)
           new == [message |-> [type |-> last'.type, id |-> last'.id,
                                deviceId |-> "", timestamp |-> now],
                   timestamp |-> now, retries |-> 0,
                   clientSessionId |-> last'.sessionId]
       IN  /\ d \in DOMAIN pendingMessages'
           /\ Len(q) < 50 => pendingMessages'[d] = Append(q, new)
           /\ Len(q) = 50
              => /\ Len(pendingMessages'[d]) = 50
                 /\ \A i \in 1..49 : pendingMessages'[d][i] = q[i + 1]
                 /\ pendingMessages'[d][50] = new
           /\ \A e \in DOMAIN pendingMessages \ {d} :
                  /\ e \in DOMAIN pendingMessages'
                  /\ pendingMessages'[e] = pendingMessages[e]

C8_QueueBound == []C8_Bounded /\ [][C8_EnqueueStep]_vars

C8_Witness ==
    /\ last.op = "clientMessage"
    /\ last.id = 51
    /\ \E d \in DOMAIN pendingMessages :
           /\ Len(pendingMessages[d]) = 50
           /\ pendingMessages[d][1].message.id = 2
           /\ pendingMessages[d][50].message.id = 51

\* C9 (SpecQueue): the flush of an accepted device connect writes to the
\* device, after the relay's own frames, exactly the messages of the
\* queued entries that are at most 10 s old, in queue order, and to no
\* other socket; each registered client with an open socket gets a
\* queued_message_sent for exactly its entries among those; entries older
\* than 10 s are dropped with the queue, unsent and unannounced.
C9_FlushStep ==
    (last'.op = "deviceConnect" /\ last'.code = 0)
    => LET q == QueueOf(last'.deviceId)
           kept == SelectSeq(q, LAMBDA e : now - e.timestamp <= 10000)
           forwarded == SelectSeq(dws'[last'.ws].sent, LAMBDA m : m.id # 0)
           Notices(c) == SelectSeq(cws'[c].sent,
                             LAMBDA f : f.type = "queued_message_sent")
           Owed(c) == SelectSeq(kept, LAMBDA e : e.clientSessionId = c)
       IN  /\ forwarded = [i \in 1..Len(kept) |-> kept[i].message]
           /\ \A w \in DOMAIN dws' \ {last'.ws} : dws'[w].sent = << >>
           /\ \A c \in DOMAIN cws :
                  Notices(c) =
                      IF c \in clients /\ cws[c].readyState = "OPEN"
                      THEN [i \in 1..Len(Owed(c)) |->
                               [type |-> "queued_message_sent",
                                originalTimestamp |-> Owed(c)[i].timestamp,
                                messageType |-> Owed(c)[i].message.type]]
                      ELSE << >>
           /\ last'.deviceId \notin DOMAIN pendingMessages'

C9_NoExpiredFlush == [][C9_FlushStep]_vars

C9_Witness ==
    /\ last.op = "deviceConnect"
    /\ last.code = 0
    /\ \E i, j \in 1..Len(last.pending) :
           /\ now - last.pending[i].timestamp > 10000
           /\ now - last.pending[j].timestamp <= 10000
           /\ \A k \in 1..Len(dws[last.ws].sent) :
                  dws[last.ws].sent[k].id # last.pending[i].message.id
           /\ \E k \in 1..Len(dws[last.ws].sent) :
                  dws[last.ws].sent[k] = last.pending[j].message
           /\ \E k \in 1..Len(cws[last.pending[j].clientSessionId].sent) :
                  cws[last.pending[j].clientSessionId].sent[k] =
                      [type |-> "queued_message_sent",
                       originalTimestamp |-> last.pending[j].timestamp,
                       messageType |-> last.pending[j].message.type]
    /\ last.deviceId \notin DOMAIN pendingMessages

\* C10 (SpecCleanup): right after a cleanup sweep no queue holds an entry
\* older than 10 s and the map holds no empty queue; every queue keeps
\* exactly its entries that are at most 10 s old, in their order, and the
\* sweep creates no queue.
C10_CleanupStep ==
    (last'.op = "cleanup")
    => /\ \A d \in DOMAIN pendingMessages' :
              /\ pendingMessages'[d] # << >>
              /\ \A i \in 1..Len(pendingMessages'[d]) :
                     now' - pendingMessages'[d][i].timestamp <= 10000
       /\ \A d \in DOMAIN pendingMessages :
              LET kept == SelectSeq(pendingMessages[d],
                              LAMBDA e : now - e.timestamp <= 10000)
              IN  IF kept = << >>
                  THEN d \notin DOMAIN pendingMessages'
                  ELSE /\ d \in DOMAIN pendingMessages'
                       /\ pendingMessages'[d] = kept
       /\ DOMAIN pendingMessages' \subseteq DOMAIN pendingMessages

C10_Cleanup == [][C10_CleanupStep]_vars

C10_Witness ==
    /\ last.op = "cleanup"
    /\ last.totalExpired > 0
    /\ \E d \in DOMAIN pendingMessages :
           \E i \in 1..Len(pendingMessages[d]) :
               now - pendingMessages[d][i].timestamp = 10000

\* C11 (SpecFlush): a step in which the proxy handled a device_online
\* publication for device D leaves D without a pending queue, whether or
\* not anything could be sent to D, and leaves the queue of every other
\* device as it was.
OnlinePublished(d) ==
    \E i \in (Len(pubs) + 1)..Len(pubs') :
        pubs'[i].type = "device_online" /\ pubs'[i].deviceId = d

C11_FlushStep ==
    \A d \in DeviceIds :
        OnlinePublished(d)
        => /\ d \notin DOMAIN pendingMessages'
           /\ DOMAIN pendingMessages' = DOMAIN pendingMessages \ {d}
           /\ \A e \in DOMAIN pendingMessages \ {d} :
                  pendingMessages'[e] = pendingMessages[e]

C11_SingleShot == [][C11_FlushStep]_vars

C11_Witness ==
    /\ last.op = "deviceFrame"
    /\ pubs[Len(pubs)].type = "device_online"
    /\ last.pending # << >>
    /\ \A w \in DOMAIN dws : dws[w].sent = << >>
    /\ conn[last.ws].deviceId \notin DOMAIN pendingMessages
    /\ pendingMessages # << >>

\* C12 (SpecNotify): in a flush, every queued entry that is at most 10 s
\* old and whose sendToDevice succeeds yields exactly one
\* queued_message_sent, to the session that queued it, with the entry's
\* enqueue time and message type, provided that session is still
\* registered and its socket is open; a registered session whose socket
\* is closing gets none, and no frame of that type goes anywhere else.
FlushOk(d) ==
    \E e \in devices' : e.deviceId = d /\ dws'[e.ws].readyState = "OPEN"

FlushNotices(c) ==
    SelectSeq(cws'[c].sent, LAMBDA f : f.type = "queued_message_sent")

FlushOwed(d, c) ==
    LET mine == SelectSeq(QueueOf(d),
                    LAMBDA e : /\ now - e.timestamp <= MESSAGE_QUEUE_TTL_MS
                               /\ e.clientSessionId = c)
    IN  [i \in 1..Len(mine) |->
            [type |-> "queued_message_sent",
             originalTimestamp |-> mine[i].timestamp,
             messageType |-> mine[i].message.type]]

C12_NotifyStep ==
    \A d \in DeviceIds :
        OnlinePublished(d)
        => \A c \in DOMAIN cws :
               FlushNotices(c) =
                   IF /\ FlushOk(d)
                      /\ c \in clients
                      /\ cws[c].readyState = "OPEN"
                   THEN FlushOwed(d, c)
                   ELSE << >>

C12_NotifyOpen == [][C12_NotifyStep]_vars

C12_Witness ==
    /\ last.op = "deviceConnect"
    /\ last.code = 0
    /\ \E i, j \in 1..Len(last.pending) :
           LET ci == last.pending[i].clientSessionId
               cj == last.pending[j].clientSessionId
           IN  /\ ci # cj
               /\ cj \in clients
               /\ cws[cj].readyState = "CLOSING"
               /\ cws[cj].sent = << >>
               /\ cws[ci].readyState = "OPEN"
               /\ \E k \in 1..Len(cws[ci].sent) :
                      cws[ci].sent[k] =
                          [type |-> "queued_message_sent",
                           originalTimestamp |-> last.pending[i].timestamp,
                           messageType |-> last.pending[i].message.type]

\* C12 as claimed: the notification goes to the originating session
\* whenever that session is still registered.
C12_ClaimedStep ==
    \A d \in DeviceIds :
        OnlinePublished(d)
        => \A c \in DOMAIN cws :
               FlushNotices(c) =
                   IF FlushOk(d) /\ c \in clients
                   THEN FlushOwed(d, c)
                   ELSE << >>

C12_NotifyRegistered == [][C12_ClaimedStep]_vars

\* C13 (SpecBurst): a client message that is not a control message and
\* that sendToDevice refuses becomes the last entry of its device's queue,
\* and the sender, and nobody else, is written exactly one device_status
\* frame with online false, messageQueued true and queuedMessages equal to
\* the queue's length after the enqueue: 1, 2, 3, ... and 50 from then on.
C13_QueuedStep ==
    (/\ last'.op = "clientMessage"
     /\ last'.valid
     /\ last'.type \notin {"refresh_auth", "ping", "get_metrics"}
     /\ ~isDeviceConnected(S, cconn[last'.sessionId].deviceId))
    => LET c == last'.sessionId
           d == cconn[c].deviceId
           before == Len(QueueOf(d))
           after == IF before < 50 THEN before + 1 ELSE 50
       IN  /\ d \in DOMAIN pendingMessages'
           /\ Len(pendingMessages'[d]) = after
           /\ pendingMessages'[d][after].message.id = last'.id
           /\ pendingMessages'[d][after].clientSessionId = c
           /\ Len(cws'[c].sent) = 1
           /\ cws'[c].sent[1].type = "device_status"
           /\ cws'[c].sent[1].deviceId = d
           /\ cws'[c].sent[1].online = FALSE
           /\ cws'[c].sent[1].messageQueued = TRUE
           /\ cws'[c].sent[1].queuedMessages = after
           /\ \A o \in DOMAIN cws' \ {c} : cws'[o].sent = << >>
           /\ \A w \in DOMAIN dws' : dws'[w].sent = << >>

C13_QueuedNotice == [][C13_QueuedStep]_vars

C13_Witness ==
    /\ last.op = "clientMessage"
    /\ last.id = 51
    /\ cws[last.sessionId].sent # << >>
    /\ cws[last.sessionId].sent[1].type = "device_status"
    /\ cws[last.sessionId].sent[1].queuedMessages = 50
    /\ QueueOf(cconn[last.sessionId].deviceId)[50].message.id = 51
    /\ QueueOf(cconn[last.sessionId].deviceId)[1].message.id = 2

\* C14 (SpecQueue): a client's messagesSent counts the messages that
\* sendToDevice accepted directly: a forwarded message adds one when the
\* device takes it and leaves the counter alone when it is queued instead,
\* and no other step changes the counter of a registered client.
C14_CountStep ==
    \A c \in clients :
        c \in clients'
        => cconn'[c].messagesSent =
               cconn[c].messagesSent
               + (IF /\ last'.op = "clientMessage"
                     /\ last'.sessionId = c
                     /\ last'.valid
                     /\ last'.type \notin {"refresh_auth", "ping", "get_metrics"}
                     /\ isDeviceConnected(S, cconn[c].deviceId)
                  THEN 1
                  ELSE 0)

C14_SentCount == [][C14_CountStep]_vars

\* C15 (SpecOffline): when a device_offline publication for a device has
\* been handled, whether the relay published it at the socket's close or
\* the device sent it, the state cache holds no entry for that device and
\* every other device's entry is what it was.
C15_OfflineStep ==
    (/\ Len(pubs') > Len(pubs)
     /\ pubs'[Len(pubs')].type = "device_offline")
    => LET d == pubs'[Len(pubs')].deviceId
       IN  /\ d \notin DOMAIN deviceStateCache'
           /\ DOMAIN deviceStateCache' = DOMAIN deviceStateCache \ {d}
           /\ \A e \in DOMAIN deviceStateCache \ {d} :
                  deviceStateCache'[e] = deviceStateCache[e]

C15_CacheCleared == [][C15_OfflineStep]_vars

\* a device that had reported a status has gone offline and its entry is
\* gone, while the other device's entry stays
C15_Witness ==
    /\ last.op = "deviceClose"
    /\ pubs[Len(pubs)].type = "device_offline"
    /\ pubs[Len(pubs)].deviceId \notin DOMAIN deviceStateCache
    /\ \E i \in 1..Len(pubs) :
           /\ pubs[i].type = "status"
           /\ pubs[i].deviceId = pubs[Len(pubs)].deviceId
           /\ \A j \in (i + 1)..(Len(pubs) - 1) :
                  pubs[j].type # "device_offline"
    /\ \E e \in DOMAIN deviceStateCache :
           deviceStateCache[e].status.id \in {211, 212}

\* C16 (SpecCache): a device message of type status, device_info,
\* esp_status or pico_status replaces that slot of its device's cache entry
\* and leaves the entry's other three slots as they were; a status_delta
\* leaves all four as they were; either way the entry's lastUpdated is the
\* time of the message, and the entries of other devices are untouched.
SlotOf(cache, d, slot) ==
    IF d \in DOMAIN cache THEN cache[d][slot] ELSE Absent

C16_CacheStep ==
    (last'.op = "deviceFrame" /\ last'.count = 1)
    => LET p == pubs'[Len(pubs')]
           d == p.deviceId
           T == {"status", "device_info", "esp_status", "pico_status"}
       IN  p.type \in T \cup {"status_delta"}
           => /\ d \in DOMAIN deviceStateCache'
              /\ deviceStateCache'[d].lastUpdated = now
              /\ \A slot \in T :
                     IF slot = p.type
                     THEN /\ deviceStateCache'[d][slot].type = p.type
                          /\ deviceStateCache'[d][slot].id = p.id
                          /\ deviceStateCache'[d][slot].deviceId = d
                     ELSE deviceStateCache'[d][slot] =
                              SlotOf(deviceStateCache, d, slot)
              /\ DOMAIN deviceStateCache' = DOMAIN deviceStateCache \cup {d}
              /\ \A e \in DOMAIN deviceStateCache \ {d} :
                     deviceStateCache'[e] = deviceStateCache[e]

C16_SlotReplaced == [][C16_CacheStep]_vars

\* a second full status has replaced the first in a full entry that was
\* last written earlier, next to another device's entry
C16_Witness ==
    /\ last.op = "deviceFrame"
    /\ pubs[Len(pubs)].type = "status"
    /\ \E d, e \in DOMAIN deviceStateCache :
           /\ d # e
           /\ d = pubs[Len(pubs)].deviceId
           /\ deviceStateCache[d].status.id = 206
           /\ deviceStateCache[d].device_info.id = 202
           /\ deviceStateCache[d].esp_status.id = 203
           /\ deviceStateCache[d].pico_status.id = 204
           /\ deviceStateCache[d].lastUpdated = now
           /\ deviceStateCache[e].status.id = 201
           /\ deviceStateCache[e].lastUpdated < now
           /\ \E i \in 1..Len(pubs) :
                  pubs[i].type = "status_delta" /\ pubs[i].deviceId = d

\* C17 (SpecHydrate): a client accepted for a device that is online and
\* has a cache entry is written, by the accepting handler and so before
\* anything a later handler broadcasts, the connected frame and then the
\* entry's slots that are present, once each, in the order status,
\* device_info, esp_status, pico_status.
C17_HydrateStep ==
    (/\ last'.op = "clientConnect"
     /\ last'.code = 0
     /\ isDeviceConnected(S, last'.deviceId)
     /\ last'.deviceId \in DOMAIN deviceStateCache)
    => LET cache == deviceStateCache[last'.deviceId]
           sent == cws'[last'.sessionId].sent
           present == SelectSeq(<<cache.status, cache.device_info,
                                  cache.esp_status, cache.pico_status>>,
                                LAMBDA slot : slot # Absent)
       IN  /\ sent # << >>
           /\ sent[1].type = "connected"
           /\ sent[1].deviceOnline = TRUE
           /\ Tail(sent) = present

C17_CachedInOrder == [][C17_HydrateStep]_vars

C17_Witness ==
    /\ last.op = "clientConnect"
    /\ last.code = 0
    /\ Len(cws[last.sessionId].sent) = 5
    /\ cws[last.sessionId].sent[1].type = "connected"
    /\ cws[last.sessionId].sent[2].type = "status"
    /\ cws[last.sessionId].sent[3].type = "device_info"
    /\ cws[last.sessionId].sent[4].type = "esp_status"
    /\ cws[last.sessionId].sent[5].type = "pico_status"

\* C18 (SpecHydrate): accepting a client for a device that is online sends
\* that device exactly one request_state when the device has no cache entry
\* or its entry is more than 10 s old, and nothing when the entry is at most
\* 10 s old; for a device that is not online nothing is sent to any device
\* and the client is written the connected frame only.
C18_RequestStep ==
    (last'.op = "clientConnect" /\ last'.code = 0)
    => LET d == last'.deviceId
           isOnline == isDeviceConnected(S, d)
           fresh == /\ d \in DOMAIN deviceStateCache
                    /\ now - deviceStateCache[d].lastUpdated <= 10000
           ToDevice(w) == dws'[w].sent
       IN  /\ \A e \in devices :
                  ToDevice(e.ws) =
                      IF e.deviceId = d /\ isOnline /\ ~fresh
                      THEN <<Msg("request_state", 0, now)>>
                      ELSE << >>
           /\ \A w \in DOMAIN dws' :
                  (\A e \in devices : e.ws # w) => ToDevice(w) = << >>
           /\ ~isOnline
              => /\ Len(cws'[last'.sessionId].sent) = 1
                 /\ cws'[last'.sessionId].sent[1].type = "connected"
                 /\ cws'[last'.sessionId].sent[1].deviceOnline = FALSE

C18_StateRequested == [][C18_RequestStep]_vars

\* a client was accepted for an online device whose cache entry was more
\* than 10 s old, and the device was sent one request_state
C18_Witness ==
    /\ last.op = "clientConnect"
    /\ last.code = 0
    /\ last.deviceId \in DOMAIN deviceStateCache
    /\ now - deviceStateCache[last.deviceId].lastUpdated > 10000
    /\ \E e \in devices :
           /\ e.deviceId = last.deviceId
           /\ dws[e.ws].sent = <<Msg("request_state", 0, now)>>

\* C19 (SpecAdmit): a client connect is closed with 4001 when the token or
\* the device parameter is missing, otherwise with 4002 when
\* verifyAccessToken returns no session, otherwise with 4003 when the user
\* does not own the device, and is accepted otherwise.  The rejected socket
\* is written no frame, and the rejection leaves the session table, the
\* per-device index and the armed expiry timeouts as they were and sends
\* nothing to any device or client.
C19_AdmitStep ==
    last'.op = "clientConnect"
    => LET token == last'.token
           d == last'.deviceId
           code == IF ~token.present \/ d = "" THEN 4001
                   ELSE IF ~verifyAccessToken(token) THEN 4002
                   ELSE IF ~userOwnsDevice(token.user, d) THEN 4003
                   ELSE 0
       IN  /\ last'.code = code
           /\ code = 0 => last'.sessionId \in clients' \ clients
           /\ code # 0
              => /\ last'.rejected.closeCalls = {code}
                 /\ last'.rejected.sent = << >>
                 /\ clients' = clients
                 /\ deviceClients' = deviceClients
                 /\ DOMAIN cconn' = DOMAIN cconn
                 /\ timers' = timers
                 /\ \A w \in DOMAIN dws' : dws'[w].sent = << >>
                 /\ \A c \in DOMAIN cws' : cws'[c].sent = << >>

C19_Admission == [][C19_AdmitStep]_vars

\* a user who does not own the device is turned away while the device is
\* online and another client is bound to it with its timeout armed
C19_Witness ==
    /\ last.op = "clientConnect"
    /\ last.code = 4003
    /\ last.rejected.readyState = "CLOSING"
    /\ isDeviceConnected(S, last.deviceId)
    /\ last.deviceId \in DOMAIN deviceClients
    /\ \A c \in clients : cconn[c].userId # last.token.user
    /\ \E h \in timers : h.sessionId \in clients

\* C20 (SpecGate): a device connect is closed with 4001 when the id or the
\* key is missing or the id does not have the form BRW- and eight hex
\* digits, otherwise with 4003 when the key is shorter than 32 or longer
\* than 64 characters or verifyDeviceKey refuses it, and is accepted
\* otherwise.  A rejected connect leaves the registry and every socket in
\* it as they were, with the connection of the same id still open and
\* registered, writes no online status and publishes nothing.
C20_GateStep ==
    last'.op = "deviceConnect"
    => LET id == last'.deviceId
           key == last'.key
           code == IF id = "" \/ key.length = 0 \/ ~IdFormatOk(id) THEN 4001
                   ELSE IF \/ key.length < 32
                           \/ key.length > 64
                           \/ ~verifyDeviceKey(id, key)
                   THEN 4003
                   ELSE 0
       IN  /\ last'.code = code
           /\ code = 0
              => /\ MapHas(devices', id)
                 /\ MapGet(devices', id).ws \notin DOMAIN dws
           /\ code # 0
              => /\ last'.rejected.closeCalls = {code}
                 /\ last'.rejected.sent = << >>
                 /\ devices' = devices
                 /\ conn' = conn
                 /\ DOMAIN dws' = DOMAIN dws
                 /\ \A w \in DOMAIN dws :
                        /\ dws'[w].readyState = dws[w].readyState
                        /\ dws'[w].closeCalls = dws[w].closeCalls
                        /\ dws'[w].sent = << >>
                 /\ online' = online
                 /\ pubs' = pubs

C20_Gate == [][C20_GateStep]_vars

\* a connect with a key the store refuses is turned away while a device
\* of the same id is connected, and that connection stays
C20_Witness ==
    /\ last.op = "deviceConnect"
    /\ last.code = 4003
    /\ last.key.length = 43
    /\ isDeviceConnected(S, last.deviceId)
    /\ dws[MapGet(devices, last.deviceId).ws].closeCalls = {}
    /\ pubs[Len(pubs)].type = "device_online"

\* C21 (SpecIndex): between handlers a session is in the session table
\* exactly when the per-device index lists it under its own device; the
\* index lists no session under two devices and holds no empty set; and a
\* step that removes a session from the one removes it from the other.
IndexedUnder(c) == {d \in DOMAIN deviceClients : c \in deviceClients[d]}

C21_Indexed ==
    /\ \A c \in clients : IndexedUnder(c) = {cconn[c].deviceId}
    /\ \A d \in DOMAIN deviceClients :
           /\ deviceClients[d] # {}
           /\ deviceClients[d] \subseteq clients

C21_TeardownStep ==
    \A c \in clients :
        c \notin clients'
        => \A d \in DOMAIN deviceClients' : c \notin deviceClients'[d]

C21_TableAndIndex == []C21_Indexed /\ [][C21_TeardownStep]_vars

\* the only session of a device has been torn down and its device has left
\* the index, while a session of the other device stays
C21_Witness ==
    /\ last.op \in {"clientClose", "clientError"}
    /\ last.sessionId \notin clients
    /\ clients # {}
    /\ cconn[last.sessionId].deviceId \notin DOMAIN deviceClients
    /\ \E c \in clients : cconn[c].deviceId # cconn[last.sessionId].deviceId

\* C22 (SpecToken): a refresh_auth whose token is missing, does not verify
\* or belongs to another user is answered with exactly one auth_refreshed
\* of success false; the session's accessTokenExpiresAt, its timeout handle,
\* the armed timeouts and the registrations stay as they were, and the
\* socket is not closed.
RefreshStep ==
    /\ last'.op = "clientMessage"
    /\ last'.valid
    /\ last'.type = "refresh_auth"

RefreshFails(c, token) ==
    \/ ~token.present
    \/ ~verifyAccessToken(token)
    \/ token.user # cconn[c].userId

C22_FailedStep ==
    (RefreshStep /\ RefreshFails(last'.sessionId, last'.token))
    => LET c == last'.sessionId
       IN  /\ Len(cws'[c].sent) = 1
           /\ cws'[c].sent[1].type = "auth_refreshed"
           /\ cws'[c].sent[1].success = FALSE
           /\ cconn'[c].accessTokenExpiresAt = cconn[c].accessTokenExpiresAt
           /\ cconn'[c].tokenExpiryTimer = cconn[c].tokenExpiryTimer
           /\ timers' = timers
           /\ clients' = clients
           /\ deviceClients' = deviceClients
           /\ cws'[c].readyState = "OPEN"
           /\ cws'[c].closeCalls = {}
           /\ ~cws'[c].destroyed

C22_RefreshRefused == [][C22_FailedStep]_vars

\* another user's valid token has been refused while the session's timeout
\* is armed
C22_Witness ==
    /\ last.op = "clientMessage"
    /\ last.type = "refresh_auth"
    /\ verifyAccessToken(last.token)
    /\ last.token.user # cconn[last.sessionId].userId
    /\ cws[last.sessionId].sent =
           <<[type |-> "auth_refreshed", success |-> FALSE,
              error |-> "Token user mismatch"]>>
    /\ \E h \in timers :
           /\ h.sessionId = last.sessionId
           /\ h.id = cconn[last.sessionId].tokenExpiryTimer
    /\ last.sessionId \in clients

\* C23 (SpecToken): a successful refresh_auth cancels the session's armed
\* timeout and only then arms the new one, so that at any time a session
\* has at most one armed timeout, an armed timeout is the one the session's
\* handle names and is set for five minutes before the session's current
\* accessTokenExpiresAt, and token_expiring is written only by an armed
\* timeout's callback, never by a cancelled one.
TimersOf(c) == {h \in timers : h.sessionId = c}

C23_OneTimer ==
    /\ \A c \in DOMAIN cconn : Cardinality(TimersOf(c)) <= 1
    /\ \A h \in timers :
           /\ h.id = cconn[h.sessionId].tokenExpiryTimer
           /\ h.expiresAt = cconn[h.sessionId].accessTokenExpiresAt
           /\ h.at = h.expiresAt - 300000

C23_RefreshedStep ==
    (RefreshStep /\ ~RefreshFails(last'.sessionId, last'.token))
    => LET c == last'.sessionId
       IN  /\ TimersOf(c) \cap timers' = {}
           /\ cconn'[c].accessTokenExpiresAt = last'.token.expiresAt
           /\ \A h \in timers' :
                  h.sessionId = c => h.expiresAt = last'.token.expiresAt
           /\ cws'[c].sent =
                  <<[type |-> "auth_refreshed", success |-> TRUE,
                     tokenExpiresAt |-> last'.token.expiresAt]>>

C23_WarnedStep ==
    \A c \in DOMAIN cws' :
        (\E i \in 1..Len(cws'[c].sent) :
             cws'[c].sent[i].type = "token_expiring")
        => /\ last'.op = "tokenTimer"
           /\ last'.sessionId = c
           /\ \E h \in timers : h.id = last'.id /\ h.sessionId = c
           /\ last'.id = cconn[c].tokenExpiryTimer

C23_SingleTimer ==
    []C23_OneTimer /\ [][C23_RefreshedStep /\ C23_WarnedStep]_vars

\* a refresh has replaced an armed timeout by one for the new expiry
C23_Witness ==
    /\ last.op = "clientMessage"
    /\ last.type = "refresh_auth"
    /\ cws[last.sessionId].sent # << >>
    /\ cws[last.sessionId].sent[1].success
    /\ cconn[last.sessionId].tokenExpiryTimer = 2
    /\ now = StartMs
    /\ TimersOf(last.sessionId) =
           {[id |-> 2, sessionId |-> last.sessionId,
             at |-> LateExpiry - 300000, expiresAt |-> LateExpiry]}

\* C24 (SpecToken): once the close or the error of a client's socket has
\* been handled, no timeout of that session is armed, and no token_expiring
\* is written for that session from then on: armed timeouts belong to
\* registered sessions, and token_expiring goes to registered sessions
\* only.
C24_NoOrphanTimer == \A h \in timers : h.sessionId \in clients

C24_DisconnectStep ==
    /\ last'.op \in {"clientClose", "clientError"}
       => /\ last'.sessionId \notin clients'
          /\ \A h \in timers' : h.sessionId # last'.sessionId
    /\ \A c \in DOMAIN cws' :
           (\E i \in 1..Len(cws'[c].sent) :
                cws'[c].sent[i].type = "token_expiring")
           => c \in clients'

C24_TimerCancelled == []C24_NoOrphanTimer /\ [][C24_DisconnectStep]_vars

\* a session whose timeout was armed and not yet due has been torn down,
\* and the timeout is no longer armed
C24_Witness ==
    /\ last.op \in {"clientClose", "clientError"}
    /\ cconn[last.sessionId].tokenExpiryTimer # 0
    /\ cconn[last.sessionId].accessTokenExpiresAt - 300000 > now
    /\ timers = {}

\* C25 (SpecToken): every accepted client connect and every successful
\* refresh_auth leaves exactly one timeout armed for the session, set for
\* five minutes before the token's expiry, and the callback of a timeout
\* that fires while the session's socket is open writes exactly one
\* token_expiring with refreshRequired true to that client.
C25_ArmedStep ==
    ((last'.op = "clientConnect" /\ last'.code = 0)
     \/ (RefreshStep /\ ~RefreshFails(last'.sessionId, last'.token)))
    => \E h \in timers' :
           /\ {g \in timers' : g.sessionId = last'.sessionId} = {h}
           /\ h.at = last'.token.expiresAt - 300000

C25_FiredStep ==
    (last'.op = "tokenTimer" /\ cws[last'.sessionId].readyState = "OPEN")
    => /\ Len(cws'[last'.sessionId].sent) = 1
       /\ cws'[last'.sessionId].sent[1].type = "token_expiring"
       /\ cws'[last'.sessionId].sent[1].refreshRequired = TRUE

C25_WarningArmed == [][C25_ArmedStep /\ C25_FiredStep]_vars

\* C26 (SpecRequest): a request's handler is in the relay's subscriber set
\* exactly while the request is unsettled: a matched response, a device
\* error, the timeout and a refused send all remove it and leave no timeout
\* armed; and a timeout leaves the registry and every device socket as they
\* were.
Refused(d) ==
    LET s == sendDeviceRequest(S, d, Msg("get_log_info", 0, now))
    IN  s.requests[Len(s.requests)]

C26_Subscribed ==
    /\ \A r \in DOMAIN requests :
           /\ requests[r].subscribed = (requests[r].outcome = "pending")
           /\ requests[r].timeoutArmed = (requests[r].outcome = "pending")
    /\ \A d \in DeviceIds :
           ~isDeviceConnected(S, d)
           => /\ Refused(d).outcome = "rejected"
              /\ ~Refused(d).subscribed
              /\ ~Refused(d).timeoutArmed

C26_TimeoutStep ==
    last'.op = "requestTimeout"
    => /\ requests[last'.requestId].outcome = "pending"
       /\ requests'[last'.requestId].outcome = "rejected"
       /\ ~requests'[last'.requestId].subscribed
       /\ devices' = devices
       /\ conn' = conn
       /\ DOMAIN dws' = DOMAIN dws
       /\ \A w \in DOMAIN dws :
              /\ dws'[w].readyState = dws[w].readyState
              /\ dws'[w].closeCalls = dws[w].closeCalls
              /\ dws'[w].sent = << >>

C26_Unsubscribed == []C26_Subscribed /\ [][C26_TimeoutStep]_vars

\* a request has timed out, its handler is gone and its device is still
\* connected, while another request has been answered and a third waits
C26_Witness ==
    /\ last.op = "requestTimeout"
    /\ requests[last.requestId].error = "Request timeout"
    /\ ~requests[last.requestId].subscribed
    /\ isDeviceConnected(S, requests[last.requestId].deviceId)
    /\ \E r \in DOMAIN requests :
           requests[r].outcome \in {"resolved", "rejected"}
           /\ r # last.requestId
           /\ requests[r].error # "Request timeout"

\* C27 (SpecRequest): a request settles exactly once.  It resolves with the
\* publication of its device that carries its requestId and the type
\* <request>_response, rejects with the message carried by such a
\* publication of type error, rejects with "Request timeout" when its
\* timeout fires and with "Device not connected" when the send is refused;
\* no other publication and no other step changes it, and a settled request
\* never changes again.
Answers(r) ==
    IF last'.op # "deviceFrame"
    THEN {}
    ELSE {i \in 1..Len(last'.msgs) :
             \E k \in (Len(pubs) + 1)..Len(pubs') :
                 /\ pubs'[k].id = last'.msgs[i].id
                 /\ pubs'[k].type = last'.msgs[i].type
                 /\ pubs'[k].deviceId = requests[r].deviceId
                 /\ RequestIdOf(last'.msgs[i]) = r
                 /\ last'.msgs[i].type
                        \in {requests[r].type \o "_response", "error"}}

Answer(r) == last'.msgs[CHOOSE i \in Answers(r) : \A j \in Answers(r) : i <= j]

C27_Once ==
    /\ \A r \in DOMAIN requests :
           requests[r].settled = IF requests[r].outcome = "pending" THEN 0
                                 ELSE 1
    /\ \A d \in DeviceIds :
           ~isDeviceConnected(S, d)
           => /\ Refused(d).error = "Device not connected"
              /\ Refused(d).settled = 1

C27_SettleStep ==
    /\ Len(requests') =
           Len(requests) + IF last'.op = "logsRoute" /\ last'.status = 0
                           THEN 1 ELSE 0
    /\ \A r \in DOMAIN requests :
           IF requests[r].outcome # "pending"
           THEN requests'[r] = requests[r]
           ELSE IF Answers(r) # {}
           THEN /\ requests'[r].settled = 1
                /\ IF Answer(r).type = "error"
                   THEN /\ requests'[r].outcome = "rejected"
                        /\ requests'[r].error =
                               IF Answer(r).message # ""
                               THEN Answer(r).message ELSE "Device error"
                   ELSE /\ requests'[r].outcome = "resolved"
                        /\ requests'[r].response = Answer(r).id
           ELSE IF last'.op = "requestTimeout" /\ last'.requestId = r
           THEN /\ requests[r].at <= now
                /\ requests'[r].settled = 1
                /\ requests'[r].outcome = "rejected"
                /\ requests'[r].error = "Request timeout"
           ELSE requests'[r] = requests[r]
    /\ last'.op = "logsRoute" /\ last'.status = 0
       => /\ requests'[last'.requestId].outcome = "pending"
          /\ requests'[last'.requestId].deviceId = last'.deviceId
          /\ MapHas(devices', last'.deviceId)
          /\ Len(dws'[MapGet(devices', last'.deviceId).ws].sent) = 1
          /\ dws'[MapGet(devices', last'.deviceId).ws].sent[1].requestId
                 = last'.requestId
          /\ dws'[MapGet(devices', last'.deviceId).ws].sent[1].type
                 = last'.type

C27_SettledOnce == []C27_Once /\ [][C27_SettleStep]_vars

\* two requests of one device were in flight; a status publication carrying
\* the second's id settled neither, the response carrying the second's id
\* resolved the second only, and the error carrying the first's id has now
\* rejected the first with the device's message
C27_Witness ==
    /\ last.op = "deviceFrame"
    /\ Len(requests) >= 2
    /\ requests[1].deviceId = requests[2].deviceId
    /\ last.msgs[1].id = 303
    /\ requests[1].outcome = "rejected"
    /\ requests[1].error = "Log buffer busy"
    /\ requests[2].outcome = "resolved"
    /\ requests[2].response = 302
    /\ \E k \in DOMAIN pubs :
           pubs[k].id = 301 /\ pubs[k].deviceId = requests[2].deviceId

\* C28 (SpecOrder): the messages of a device's frame are written to every
\* client that is bound to the device and open, in the order in which the
\* frame packs them, and none of them twice.  The payload ids of a frame
\* increase in the order of packing, so the ids written to a client must
\* increase.
Stamped(m, d) ==
    [m EXCEPT !.deviceId = d, !.timestamp = IF @ # 0 THEN @ ELSE now]

Listening(d) ==
    {c \in clients : cconn[c].deviceId = d /\ cws[c].readyState = "OPEN"}

C28_OrderStep ==
    last'.op = "deviceFrame"
    => LET d == conn[last'.ws].deviceId
       IN  \A c \in Listening(d) :
               /\ \A i \in DOMAIN cws'[c].sent :
                      \E j \in DOMAIN last'.msgs :
                          /\ last'.msgs[j] # Nil
                          /\ cws'[c].sent[i] = Stamped(last'.msgs[j], d)
               /\ \A i, j \in DOMAIN cws'[c].sent :
                      i < j => cws'[c].sent[i].id < cws'[c].sent[j].id

C28_InOrder == [][C28_OrderStep]_vars

\* the part of C28 that holds: a frame that packs maps only is written to
\* each such client message by message, whole and in order
C28_MapsStep ==
    (last'.op = "deviceFrame" /\ \A j \in DOMAIN last'.msgs : last'.msgs[j] # Nil)
    => LET d == conn[last'.ws].deviceId
       IN  \A c \in Listening(d) :
               cws'[c].sent =
                   [i \in DOMAIN last'.msgs |-> Stamped(last'.msgs[i], d)]

C28_MapsInOrder == [][C28_MapsStep]_vars

C28_MapsWitness ==
    /\ last.op = "deviceFrame"
    /\ \E c \in clients :
           /\ Len(cws[c].sent) = 2
           /\ cws[c].sent[1].id = 401
           /\ cws[c].sent[2].id = 402

\* C29 (SpecOrder): every publication for a device is written exactly once
\* to each registered client that is bound to the device and whose socket is
\* open, and to no other client: what a step writes to a client is the
\* sequence of that step's publications for the client's own device.
NewPubs == SubSeq(pubs', Len(pubs) + 1, Len(pubs'))

PubsFor(c) ==
    SelectSeq(NewPubs, LAMBDA p : c \in Listening(p.deviceId))

C29_FanOutStep ==
    \A c \in DOMAIN cws :
        /\ Len(cws'[c].sent) = Len(PubsFor(c))
        /\ \A i \in DOMAIN cws'[c].sent :
               /\ cws'[c].sent[i].type = PubsFor(c)[i].type
               /\ cws'[c].sent[i].id = PubsFor(c)[i].id

C29_FanOut == [][C29_FanOutStep]_vars

\* a device's frame of two messages has been written to the open client of
\* that device and not to the open client of the other device, which is
\* online as well
C29_Witness ==
    /\ last.op = "deviceFrame"
    /\ last.count = 2
    /\ \A d \in DeviceIds : isDeviceConnected(S, d)
    /\ \E c1, c2 \in clients :
           /\ cconn[c1].deviceId = conn[last.ws].deviceId
           /\ cconn[c2].deviceId # conn[last.ws].deviceId
           /\ cws[c1].readyState = "OPEN"
           /\ cws[c2].readyState = "OPEN"
           /\ Len(cws[c1].sent) = 2
           /\ cws[c2].sent = << >>

\* C30 (SpecOnline): the connect of a device sends it, after connected and
\* request_state, the messages of its queue that are at most 10 s old, in
\* the order in which they were queued, and leaves no queue behind; so a
\* device that is connected never has a queue, and a client message handled
\* after the connect is sent after all of them.
C30_NoBacklog ==
    \A d \in DeviceIds : isDeviceConnected(S, d) => QueueOf(d) = << >>

C30_OnlineStep ==
    (last'.op = "deviceConnect" /\ last'.code = 0)
    => LET d == last'.deviceId
           due == SelectSeq(QueueOf(d),
                      LAMBDA e : now - e.timestamp <= MESSAGE_QUEUE_TTL_MS)
           out == dws'[last'.ws].sent
       IN  /\ Len(out) = 2 + Len(due)
           /\ out[1].type = "connected"
           /\ out[2].type = "request_state"
           /\ \A i \in 1..Len(due) : out[2 + i] = due[i].message
           /\ d \notin DOMAIN pendingMessages'

C30_LaterStep ==
    (/\ last'.op = "clientMessage"
     /\ isDeviceConnected(S, cconn[last'.sessionId].deviceId))
    => LET w == MapGet(devices, cconn[last'.sessionId].deviceId).ws
       IN  /\ Len(dws'[w].sent) = 1
           /\ dws'[w].sent[1].id = last'.id

C30_FlushFirst ==
    []C30_NoBacklog /\ [][C30_OnlineStep /\ C30_LaterStep]_vars

\* the device has connected with three queued commands, the oldest of them
\* expired: it was sent the other two after its first two frames, the
\* older first
C30_Witness ==
    /\ last.op = "deviceConnect"
    /\ last.code = 0
    /\ Len(last.pending) = 3
    /\ Len(dws[last.ws].sent) = 4
    /\ dws[last.ws].sent[3] = last.pending[2].message
    /\ dws[last.ws].sent[4] = last.pending[3].message
    /\ last.pending[2].timestamp < last.pending[3].timestamp

\* after a flush of two commands the client's third has gone to the device
C30_LaterWitness ==
    /\ last.op = "clientMessage"
    /\ last.id = 3
    /\ \E i \in DOMAIN pubs : pubs[i].type = "device_online"
    /\ \E w \in DOMAIN dws :
           Len(dws[w].sent) = 1 /\ dws[w].sent[1].id = 3

\* C31 (SpecControl): a client message of type ping, get_metrics or
\* refresh_auth is answered with exactly one frame to its sender (a pong
\* carries the ping's timestamp as clientTimestamp), nothing is sent to a
\* device and no queue changes; a message of any other type is either sent
\* to the client's device, once, or appended to that device's queue, never
\* both and never neither.
ControlReply(type) ==
    IF type = "ping" THEN "pong"
    ELSE IF type = "get_metrics" THEN "metrics" ELSE "auth_refreshed"

DeviceSilent == \A w \in DOMAIN dws' : dws'[w].sent = << >>

C31_MessageStep ==
    (last'.op = "clientMessage" /\ last'.valid)
    => LET c == last'.sessionId
           d == cconn[c].deviceId
           out == cws'[c].sent
       IN  IF last'.type \in {"ping", "get_metrics", "refresh_auth"}
           THEN /\ Len(out) = 1
                /\ out[1].type = ControlReply(last'.type)
                /\ last'.type = "ping"
                   => out[1].clientTimestamp = last'.message.timestamp
                /\ DeviceSilent
                /\ pendingMessages' = pendingMessages
                /\ \A o \in DOMAIN cws \ {c} : cws'[o].sent = << >>
           ELSE \/ /\ isDeviceConnected(S, d)
                   /\ dws'[MapGet(devices, d).ws].sent
                          = <<[last'.message EXCEPT !.timestamp = now]>>
                   /\ \A w \in DOMAIN dws \ {MapGet(devices, d).ws} :
                          dws'[w].sent = << >>
                   /\ pendingMessages' = pendingMessages
                \/ /\ DeviceSilent
                   /\ d \in DOMAIN pendingMessages'
                   /\ pendingMessages'[d] =
                          Append(QueueOf(d),
                                 [message |-> [last'.message
                                                 EXCEPT !.timestamp = now],
                                  timestamp |-> now, retries |-> 0,
                                  clientSessionId |-> c])
                   /\ \A e \in DOMAIN pendingMessages' \ {d} :
                          /\ e \in DOMAIN pendingMessages
                          /\ pendingMessages'[e] = pendingMessages[e]

C31_ControlOrForward == [][C31_MessageStep]_vars

\* with the device away and a command in its queue, a ping of timestamp 12
\* has been answered with its pong and the queue still holds the command
C31_Witness ==
    /\ last.op = "clientMessage"
    /\ last.type = "ping"
    /\ last.message.timestamp = 12
    /\ cws[last.sessionId].sent[1].type = "pong"
    /\ cws[last.sessionId].sent[1].clientTimestamp = 12
    /\ ~isDeviceConnected(S, cconn[last.sessionId].deviceId)
    /\ Len(QueueOf(cconn[last.sessionId].deviceId)) = 1

\* C32 (SpecOnline): an accepted device connect publishes device_online
\* once, and when the subscribers are called the new socket is registered,
\* the store has the device online and connected and request_state are the
\* two frames written so far; every queued message that the flush sends
\* follows them.
C32_AcceptStep ==
    (last'.op = "deviceConnect" /\ last'.code = 0)
    => LET d == last'.deviceId
           p == pubs'[Len(pubs')]
           out == dws'[last'.ws].sent
       IN  /\ Len(pubs') = Len(pubs) + 1
           /\ p.type = "device_online"
           /\ p.deviceId = d
           /\ p.ws = last'.ws
           /\ p.registered
           /\ p.marked
           /\ p.frames = 2
           /\ Len(out) >= 2
           /\ out[1].type = "connected"
           /\ out[2].type = "request_state"
           /\ \A i \in 3..Len(out) :
                  \E j \in DOMAIN last'.pending :
                      out[i] = last'.pending[j].message
           /\ MapGet(devices', d).ws = last'.ws
           /\ d \in online'

C32_GreetThenPublish == [][C32_AcceptStep]_vars

\* the device has connected with one command queued: the command is its
\* third frame, and the open client that queued it has been told
\* device_online and then queued_message_sent
C32_Witness ==
    /\ last.op = "deviceConnect"
    /\ last.code = 0
    /\ Len(last.pending) = 1
    /\ Len(dws[last.ws].sent) = 3
    /\ dws[last.ws].sent[3] = last.pending[1].message
    /\ pubs[Len(pubs)].frames = 2
    /\ \E c \in clients :
           /\ Len(cws[c].sent) = 2
           /\ cws[c].sent[1].type = "device_online"
           /\ cws[c].sent[2].type = "queued_message_sent"

\* C33 (SpecRelay): the close of a device's registered socket removes the
\* device from the registry, marks it offline in the store and publishes
\* one device_offline; and whenever the relay's latest publication about
\* a device's connection is device_offline, the device is not connected
\* and sendToDevice for it returns false and changes nothing.
OwnLifecycle(d) ==
    {i \in DOMAIN pubs : /\ pubs[i].deviceId = d
                         /\ pubs[i].id = 0
                         /\ Lifecycle(i)}

LatestOf(I) == CHOOSE i \in I : \A j \in I : j <= i

C33_Offline ==
    \A d \in DeviceIds :
        (/\ OwnLifecycle(d) # {}
         /\ pubs[LatestOf(OwnLifecycle(d))].type = "device_offline")
        => /\ ~isDeviceConnected(S, d)
           /\ ~sendToDevice(S, d, Msg("command", 0, 0)).ret
           /\ sendToDevice(S, d, Msg("command", 0, 0)).s = S

C33_CloseStep ==
    (/\ last'.op = "deviceClose"
     /\ MapHas(devices, last'.deviceId)
     /\ MapGet(devices, last'.deviceId).ws = last'.ws)
    => /\ ~MapHas(devices', last'.deviceId)
       /\ last'.deviceId \notin online'
       /\ Len(pubs') = Len(pubs) + 1
       /\ pubs'[Len(pubs')].type = "device_offline"
       /\ pubs'[Len(pubs')].deviceId = last'.deviceId
       /\ pubs'[Len(pubs')].id = 0
       /\ ~pubs'[Len(pubs')].registered
       /\ ~pubs'[Len(pubs')].marked

C33_ClosedIsOffline == []C33_Offline /\ [][C33_CloseStep]_vars

\* the only socket a device ever had has closed while the other device
\* stays connected
C33_Witness ==
    /\ last.op = "deviceClose"
    /\ \A w \in DOMAIN conn \ {last.ws} : conn[w].deviceId # last.deviceId
    /\ pubs[Len(pubs)].type = "device_offline"
    /\ ~pubs[Len(pubs)].marked
    /\ ~isDeviceConnected(S, last.deviceId)
    /\ last.deviceId \notin online
    /\ \E d \in DeviceIds : isDeviceConnected(S, d)

\* C34 (SpecStore): when updateDeviceStatus throws, the connect still
\* registers the socket, greets the device with connected and
\* request_state and publishes device_online, and the close still removes
\* the device from the registry and publishes device_offline; the store
\* alone keeps what it held.
C34_FailedStep ==
    /\ (last'.op = "deviceConnect" /\ last'.code = 0 /\ last'.fails)
       => /\ MapHas(devices', last'.deviceId)
          /\ MapGet(devices', last'.deviceId).ws = last'.ws
          /\ Len(dws'[last'.ws].sent) = 2
          /\ dws'[last'.ws].sent[1].type = "connected"
          /\ dws'[last'.ws].sent[2].type = "request_state"
          /\ Len(pubs') = Len(pubs) + 1
          /\ pubs'[Len(pubs')].type = "device_online"
          /\ pubs'[Len(pubs')].deviceId = last'.deviceId
          /\ pubs'[Len(pubs')].registered
          /\ online' = online
    /\ (last'.op = "deviceClose" /\ last'.fails)
       => /\ ~MapHas(devices', last'.deviceId)
          /\ Len(pubs') = Len(pubs) + 1
          /\ pubs'[Len(pubs')].type = "device_offline"
          /\ pubs'[Len(pubs')].deviceId = last'.deviceId
          /\ online' = online

C34_StoreSwallowed == [][C34_FailedStep]_vars

\* the store threw at the close of a device it has online: the device is
\* out of the registry, still online in the store, and its client has been
\* told device_offline
C34_Witness ==
    /\ last.op = "deviceClose"
    /\ last.fails
    /\ last.deviceId \in online
    /\ ~MapHas(devices, last.deviceId)
    /\ pubs[Len(pubs)].type = "device_offline"
    /\ \E c \in clients :
           /\ cconn[c].deviceId = last.deviceId
           /\ Len(cws[c].sent) = 1
           /\ cws[c].sent[1].type = "device_offline"

\* C35 (SpecRelay): the socket accepted last for a device, while it is open
\* and has not closed, is the device's registered socket, so that the
\* device is connected and can be sent to; and the close of a socket that
\* is not the registered one leaves the registry and the store as they
\* were.
Newest(w) ==
    \A v \in DOMAIN conn : conn[v].deviceId = conn[w].deviceId => v <= w

C35_Registered ==
    \A w \in DOMAIN conn :
        (Newest(w) /\ dws[w].readyState = "OPEN")
        => /\ MapHas(devices, conn[w].deviceId)
           /\ MapGet(devices, conn[w].deviceId).ws = w
           /\ isDeviceConnected(S, conn[w].deviceId)

C35_StaleCloseStep ==
    (/\ last'.op = "deviceClose"
     /\ MapHas(devices, last'.deviceId)
     /\ MapGet(devices, last'.deviceId).ws # last'.ws)
    => /\ devices' = devices
       /\ online' = online

C35_NewestStays == []C35_Registered /\ [][C35_StaleCloseStep]_vars

\* C36 (SpecDelta): a client accepted for a device that is online is
\* written at least one cached state frame (status, device_info,
\* esp_status or pico_status) during the accept, or the device is sent a
\* request_state.
C36_HydrateStep ==
    (/\ last'.op = "clientConnect"
     /\ last'.code = 0
     /\ isDeviceConnected(S, last'.deviceId))
    => \/ \E i \in DOMAIN cws'[last'.sessionId].sent :
              cws'[last'.sessionId].sent[i].type
                  \in {"status", "device_info", "esp_status", "pico_status"}
       \/ \E i \in DOMAIN dws'[MapGet(devices, last'.deviceId).ws].sent :
              dws'[MapGet(devices, last'.deviceId).ws].sent[i].type
                  = "request_state"

C36_Hydrated == [][C36_HydrateStep]_vars

\* C37 (SpecWay): a client's message is written to a device at most once.
\* Message ids are handed out in increasing order; a step writes an id to a
\* device only if it is the id of the message the step received, which is
\* then not queued, or an id that was queued before the step and is queued
\* no more after it; no id is written twice in a step; and nothing enters a
\* queue but the message a step received.  So an id that was written can
\* never be written again.
QueuedIds(pm) ==
    UNION {{pm[d][i].message.id : i \in DOMAIN pm[d]} : d \in DOMAIN pm}

Received == IF last'.op = "clientMessage" THEN {last'.id} ELSE {}

Forwarded(w) == SelectSeq(dws'[w].sent, LAMBDA f : f.id > 0)

C37_Queued ==
    /\ \A x \in QueuedIds(pendingMessages) : x <= totals.messages
    /\ \A d, e \in DOMAIN pendingMessages :
           \A i \in DOMAIN pendingMessages[d], j \in DOMAIN pendingMessages[e] :
               pendingMessages[d][i].message.id = pendingMessages[e][j].message.id
               => d = e /\ i = j

C37_WriteStep ==
    /\ \A x \in Received : x = totals.messages + 1
    /\ QueuedIds(pendingMessages')
           \subseteq QueuedIds(pendingMessages) \cup Received
    /\ \A w \in DOMAIN dws' :
           /\ \A i, j \in DOMAIN Forwarded(w) :
                  Forwarded(w)[i].id = Forwarded(w)[j].id => i = j
           /\ \A v \in DOMAIN dws' \ {w} :
                  Forwarded(w) = << >> \/ Forwarded(v) = << >>
           /\ \A i \in DOMAIN Forwarded(w) :
                  /\ Forwarded(w)[i].id
                         \in QueuedIds(pendingMessages) \cup Received
                  /\ Forwarded(w)[i].id \notin QueuedIds(pendingMessages')

C37_AtMostOnce == []C37_Queued /\ [][C37_WriteStep]_vars

\* the device has connected a second time after two commands: the flush of
\* this connect wrote the second command, queued since the first connect,
\* and not the first
C37_Witness ==
    /\ last.op = "deviceConnect"
    /\ last.ws = 2
    /\ totals.messages = 2
    /\ Len(last.pending) = 1
    /\ last.pending[1].message.id = 2
    /\ Len(dws[2].sent) = 3
    /\ dws[2].sent[3].id = 2
    /\ pendingMessages = << >>

\* C38 (SpecNotify): the flush writes a queued message to the device only
\* if the session that queued it is still registered when the flush runs.
C38_FlushStep ==
    (last'.op = "deviceConnect" /\ last'.code = 0)
    => \A i \in DOMAIN last'.pending :
           (\E k \in DOMAIN dws'[last'.ws].sent :
                dws'[last'.ws].sent[k] = last'.pending[i].message)
           => last'.pending[i].clientSessionId \in clients

C38_OriginatorPresent == [][C38_FlushStep]_vars

\* C39 (SpecBind): a session's deviceId never changes, and a client's
\* message, whatever its deviceId field says, writes only to the registered
\* socket of the session's own device and changes only that device's queue,
\* which gains the message exactly when nothing was written.
C39_BoundStep ==
    /\ \A c \in DOMAIN cconn : cconn'[c].deviceId = cconn[c].deviceId
    /\ (last'.op = "clientMessage" /\ last'.valid)
       => LET own == cconn[last'.sessionId].deviceId
          IN  /\ \A w \in DOMAIN dws :
                     dws'[w].sent # << >>
                     => /\ conn[w].deviceId = own
                        /\ last'.type # "refresh_auth"
                        /\ dws'[w].sent
                               = <<[last'.message EXCEPT !.timestamp = now]>>
                        /\ pendingMessages' = pendingMessages
              /\ \A e \in DeviceIds \ {own} :
                     /\ e \in DOMAIN pendingMessages'
                            <=> e \in DOMAIN pendingMessages
                     /\ e \in DOMAIN pendingMessages
                            => pendingMessages'[e] = pendingMessages[e]
              /\ (last'.type # "refresh_auth" /\ DeviceSilent)
                 => /\ own \in DOMAIN pendingMessages'
                    /\ Len(pendingMessages'[own]) = Len(QueueOf(own)) + 1

C39_OwnDeviceOnly == [][C39_BoundStep]_vars

\* a client of the connected device has sent a command whose deviceId field
\* names the other device, which is away and has a command queued: the
\* command went to the client's own device and the other queue is as it was
C39_Witness ==
    /\ last.op = "clientMessage"
    /\ last.message.deviceId # ""
    /\ last.message.deviceId # cconn[last.sessionId].deviceId
    /\ isDeviceConnected(S, cconn[last.sessionId].deviceId)
    /\ Len(dws[MapGet(devices, cconn[last.sessionId].deviceId).ws].sent) = 1
    /\ ~isDeviceConnected(S, last.message.deviceId)
    /\ Len(QueueOf(last.message.deviceId)) = 1
    /\ QueueOf(last.message.deviceId)[1].clientSessionId # last.sessionId


\* C40 (SpecLogs): a log route answers 400 to a missing device parameter,
\* 404 to a device the user does not own and 503 to a device that is not
\* connected, in this order, and then writes to no device socket and
\* subscribes no handler; only an own, connected device is sent the request,
\* on its registered socket.  A request that times out is answered 504, and
\* a request whose send is refused as not connected is answered 503.
C40_RouteStep ==
    last'.op = "logsRoute"
    => /\ last'.status =
              IF last'.deviceId = "" THEN 400
              ELSE IF ~userOwnsDevice(last'.userId, last'.deviceId) THEN 404
              ELSE IF ~isDeviceConnected(S, last'.deviceId) THEN 503
              ELSE 0
       /\ last'.status # 0
          => /\ requests' = requests
             /\ \A w \in DOMAIN dws' : dws'[w].sent = << >>
       /\ last'.status = 0
          => /\ Len(requests') = Len(requests) + 1
             /\ requests'[Len(requests')].subscribed
             /\ requests'[Len(requests')].deviceId = last'.deviceId
             /\ \A w \in DOMAIN dws' :
                    Len(dws'[w].sent) =
                        IF w = MapGet(devices, last'.deviceId).ws
                        THEN 1 ELSE 0

C40_Answered ==
    /\ \A r \in DOMAIN requests :
           requests[r].error = "Request timeout"
           => routeResponse(requests[r]) = 504
    /\ \A d \in DeviceIds :
           ~isDeviceConnected(S, d)
           => /\ Refused(d).error = "Device not connected"
              /\ routeResponse(Refused(d)) = 503

C40_TimeoutStep ==
    last'.op = "requestTimeout"
    => /\ routeResponse(requests[last'.requestId]) = 0
       /\ routeResponse(requests'[last'.requestId]) = 504

C40_ChecksFirst ==
    []C40_Answered /\ [][C40_RouteStep /\ C40_TimeoutStep]_vars

\* a user is refused the connected device of another user, after a request
\* to it has timed out and while a device is not connected
C40_Witness ==
    /\ last.op = "logsRoute"
    /\ last.status = 404
    /\ isDeviceConnected(S, last.deviceId)
    /\ \E r \in DOMAIN requests :
           requests[r].error = "Request timeout"
           /\ requests[r].deviceId = last.deviceId
    /\ \E d \in DeviceIds : ~isDeviceConnected(S, d)

====
